---- MODULE Spec2Model ----
(***************************************************************************)
(* PIM matrix-multiplication compiler: the instruction encoder             *)
(* (isa_generator.cpp), the work partitioner (parallelizer.cpp), the       *)
(* memory layout planner (memory_layout.cpp), the core instruction         *)
(* sequencer (core_sequence.cpp), the three-address-code generator         *)
(* (three_address.cpp) and the driver that composes them (main.cpp).       *)
(*                                                                         *)
(* A text line (std::string) is the sequence of its pieces, which read one *)
(* after the other are the text: "" is << >>, an instruction word is its   *)
(* six hex digits, so that instr[0] is Head(instr), and a number printed   *)
(* with std::to_string or std::hex is the sequence of its digits.          *)
(***************************************************************************)
EXTENDS Integers, Sequences, FiniteSets, TLC

VARIABLES
    pc,                 \* position of main() in its pipeline
    numCores,           \* main: numCores (-c, default 4)
    overrideM,          \* main: overrideM (-M, -1 = use the parsed value)
    overrideN,          \* main: overrideN
    overrideK,          \* main: overrideK
    dims,               \* main: MatrixDimensions dims
    threeAddressCode,   \* main: ThreeAddressCode threeAddressCode (.instructions)
    tacFile,            \* the lines of <output>.tac
    workAssignments,    \* main: std::vector<WorkAssignment>
    memoryMap,          \* main: MemoryMap memoryMap
    allInstructions,    \* main: std::vector<std::string> allInstructions
    workIdx,            \* position of the range-for over workAssignments
    outFile,            \* the lines of the output file
    dataInstructions,   \* main: the count of non-comment lines
    coreInstructions,   \* main: the sequence returned for the core last generated
    call,               \* the last call of an instruction generator and its result
    cli,                \* main: argv, the loop over it and the locals it sets
    parser,             \* findMatrixDimensions: the source text and its locals
    exec,               \* a run of the three-address code: program, store, position
    sequences           \* the sequences of the cores when they are generated apart

vars == <<pc, numCores, overrideM, overrideN, overrideK, dims, threeAddressCode,
          tacFile, workAssignments, memoryMap, allInstructions, workIdx, outFile,
          dataInstructions, coreInstructions, call, cli, parser, exec, sequences>>

\* the state of the parts that are also run on their own
sideVars == <<cli, parser, exec, sequences>>

pipelineVars == <<pc, numCores, overrideM, overrideN, overrideK, dims,
                  threeAddressCode, tacFile, workAssignments, memoryMap,
                  allInstructions, workIdx, outFile, dataInstructions,
                  coreInstructions>>

-----------------------------------------------------------------------------
(* Program constants *)

MEMORY_ROW_SIZE == 512

CORE_MASK == 63

ADDR_MASK == 511

HEX_MASK == 16777215

HEX_WIDTH == 6

DEFAULT_CORES == 4

FUNC_MATMUL == 1

OP_MAC == 2

-----------------------------------------------------------------------------
(* Bounds of the model *)

MaxM == 4

MaxN == 3

MaxK == 2

MaxCores == 5

EncSpan == 1

-----------------------------------------------------------------------------
(* C++ integer arithmetic *)

\* int / int truncates toward zero
CDiv(a, b) ==
    IF a >= 0 THEN a \div b ELSE -((-a) \div b)

\* int % int has the sign of the dividend
CMod(a, b) ==
    a - b * CDiv(a, b)

Min(a, b) ==
    IF a < b THEN a ELSE b

\* The sum of f[lo..hi], by halving (the nesting stays logarithmic).
RECURSIVE ConcatRange(_, _, _)
ConcatRange(f, lo, hi) ==
    IF lo > hi THEN << >>
    ELSE IF lo = hi THEN f[lo]
    ELSE LET mid == (lo + hi) \div 2
         IN  ConcatRange(f, lo, mid) \o ConcatRange(f, mid + 1, hi)

\* a & b on two's complement ints, b >= 0: bit i of a is (a \div 2^i) % 2
\* with the flooring \div, also for a negative a.
RECURSIVE BitAnd(_, _)
BitAnd(a, b) ==
    IF b = 0 THEN 0
    ELSE ((a % 2) * (b % 2)) + 2 * BitAnd(a \div 2, b \div 2)

\* a | b on non-negative values
RECURSIVE BitOr(_, _)
BitOr(a, b) ==
    IF a = 0 THEN b
    ELSE IF b = 0 THEN a
    ELSE (IF (a % 2) + (b % 2) > 0 THEN 1 ELSE 0) + 2 * BitOr(a \div 2, b \div 2)

\* a << n
Shl(a, n) ==
    a * (2 ^ n)

BoolBit(b) ==
    IF b THEN 1 ELSE 0

-----------------------------------------------------------------------------
(* Text *)

DecChars == <<"0", "1", "2", "3", "4", "5", "6", "7", "8", "9">>

HexChars == <<"0", "1", "2", "3", "4", "5", "6", "7", "8", "9",
              "a", "b", "c", "d", "e", "f">>

\* the digits of a non-negative number in the given base, no leading zero
RECURSIVE Digits(_, _, _)
Digits(v, base, chars) ==
    IF v < base THEN <<chars[v + 1]>>
    ELSE Digits(v \div base, base, chars) \o <<chars[(v % base) + 1]>>

\* std::to_string(int)
to_string(n) ==
    IF n < 0 THEN <<"-">> \o Digits(-n, 10, DecChars) ELSE Digits(n, 10, DecChars)

\* std::setw(w) << std::setfill('0'): pad on the left up to the width
PadLeft(s, w) ==
    [i \in 1 .. (w - Len(s)) |-> "0"] \o s

\* isa_generator.cpp to_hex_string
to_hex_string(value) ==
    PadLeft(Digits(BitAnd(value, HEX_MASK), 16, HexChars), HEX_WIDTH)

-----------------------------------------------------------------------------
(* Instruction encoder (isa_generator.cpp) *)

genNoOpInstr ==
    LET i0 == 0
        i1 == BitOr(i0, Shl(0, 17))
    IN  to_hex_string(i1)

genProgInstr(coreId, read, write, addr) ==
    LET c  == BitAnd(coreId, CORE_MASK)
        a  == BitAnd(addr, ADDR_MASK)
        i0 == 0
        i1 == BitOr(i0, Shl(1, 17))
        i2 == BitOr(i1, Shl(c, 11))
        i3 == BitOr(i2, Shl(BoolBit(read), 10))
        i4 == BitOr(i3, Shl(BoolBit(write), 9))
        i5 == BitOr(i4, a)
    IN  to_hex_string(i5)

\* mutant: the core id is masked with 0x7F, one bit too wide
genExeInstr_WideCoreMask(coreId, read, write, addr) ==
    LET c  == BitAnd(coreId, 2 * CORE_MASK + 1)
        a  == BitAnd(addr, ADDR_MASK)
        i1 == BitOr(0, Shl(2, 17))
        i2 == BitOr(i1, Shl(c, 11))
        i3 == BitOr(i2, Shl(BoolBit(read), 10))
        i4 == BitOr(i3, Shl(BoolBit(write), 9))
        i5 == BitOr(i4, a)
    IN  to_hex_string(i5)

\* mutant: the read flag is put at bit 9, on top of the write flag
genExeInstr_ReadAtWriteBit(coreId, read, write, addr) ==
    LET c  == BitAnd(coreId, CORE_MASK)
        a  == BitAnd(addr, ADDR_MASK)
        i1 == BitOr(0, Shl(2, 17))
        i2 == BitOr(i1, Shl(c, 11))
        i3 == BitOr(i2, Shl(BoolBit(read), 9))
        i4 == BitOr(i3, Shl(BoolBit(write), 9))
        i5 == BitOr(i4, a)
    IN  to_hex_string(i5)

\* mutant: the address is not masked to 9 bits
genExeInstr_NoAddrMask(coreId, read, write, addr) ==
    LET c  == BitAnd(coreId, CORE_MASK)
        a  == BitAnd(addr, HEX_MASK)
        i1 == BitOr(0, Shl(2, 17))
        i2 == BitOr(i1, Shl(c, 11))
        i3 == BitOr(i2, Shl(BoolBit(read), 10))
        i4 == BitOr(i3, Shl(BoolBit(write), 9))
        i5 == BitOr(i4, a)
    IN  to_hex_string(i5)

genExeInstr(coreId, read, write, addr) ==
    LET c  == BitAnd(coreId, CORE_MASK)
        a  == BitAnd(addr, ADDR_MASK)
        i0 == 0
        i1 == BitOr(i0, Shl(2, 17))
        i2 == BitOr(i1, Shl(c, 11))
        i3 == BitOr(i2, Shl(BoolBit(read), 10))
        i4 == BitOr(i3, Shl(BoolBit(write), 9))
        i5 == BitOr(i4, a)
    IN  to_hex_string(i5)

genEndInstr(coreId, read, write, addr) ==
    LET c  == BitAnd(coreId, CORE_MASK)
        a  == BitAnd(addr, ADDR_MASK)
        i0 == 0
        i1 == BitOr(i0, Shl(3, 17))
        i2 == BitOr(i1, Shl(c, 11))
        i3 == BitOr(i2, Shl(BoolBit(read), 10))
        i4 == BitOr(i3, Shl(BoolBit(write), 9))
        i5 == BitOr(i4, a)
    IN  to_hex_string(i5)

-----------------------------------------------------------------------------
(* Hex to binary display conversion (main.cpp) *)

\* toupper on the characters a hex word can hold
ToUpper(c) ==
    CASE c = "a" -> "A" [] c = "b" -> "B" [] c = "c" -> "C"
      [] c = "d" -> "D" [] c = "e" -> "E" [] c = "f" -> "F"
      [] OTHER -> c

\* one case of the switch in hexToBinary
HexCharBits(u) ==
    CASE u = "0" -> <<"0", "0", "0", "0">>
      [] u = "1" -> <<"0", "0", "0", "1">>
      [] u = "2" -> <<"0", "0", "1", "0">>
      [] u = "3" -> <<"0", "0", "1", "1">>
      [] u = "4" -> <<"0", "1", "0", "0">>
      [] u = "5" -> <<"0", "1", "0", "1">>
      [] u = "6" -> <<"0", "1", "1", "0">>
      [] u = "7" -> <<"0", "1", "1", "1">>
      [] u = "8" -> <<"1", "0", "0", "0">>
      [] u = "9" -> <<"1", "0", "0", "1">>
      [] u = "A" -> <<"1", "0", "1", "0">>
      [] u = "B" -> <<"1", "0", "1", "1">>
      [] u = "C" -> <<"1", "1", "0", "0">>
      [] u = "D" -> <<"1", "1", "0", "1">>
      [] u = "E" -> <<"1", "1", "1", "0">>
      [] u = "F" -> <<"1", "1", "1", "1">>
      [] OTHER   -> <<"?", "?", "?", "?">>

hexToBinary(hex) ==
    ConcatRange([i \in 1 .. Len(hex) |-> HexCharBits(ToUpper(hex[i]))], 1, Len(hex))

-----------------------------------------------------------------------------
(* Three-address code generator (three_address.cpp) *)

\* A line of three-address code is the sequence of its words, single spaces,
\* punctuation marks and digits, after one "    " per level of indentation.

\* mutant: the test of L2 compares j with K
generateThreeAddressCode_L2BoundK(d) ==
    << <<"i", " ", "=", " ", "0">>,
       <<"L1", ":", " ", "if", " ", "i", " ", ">=", " ">> \o to_string(d.M)
           \o <<" ", "goto", " ", "END_L1">>,
       <<"    ", "j", " ", "=", " ", "0">>,
       <<"    ", "L2", ":", " ", "if", " ", "j", " ", ">=", " ">> \o to_string(d.K)
           \o <<" ", "goto", " ", "END_L2">>,
       <<"    ", "    ", "sum", " ", "=", " ", "0">>,
       <<"    ", "    ", "k", " ", "=", " ", "0">>,
       <<"    ", "    ", "L3", ":", " ", "if", " ", "k", " ", ">=", " ">>
           \o to_string(d.K) \o <<" ", "goto", " ", "END_L3">>,
       <<"    ", "    ", "    ", "t1", " ", "=", " ", "i", " ", "*", " ">>
           \o to_string(d.K),
       <<"    ", "    ", "    ", "t2", " ", "=", " ", "t1", " ", "+", " ", "k">>,
       <<"    ", "    ", "    ", "t3", " ", "=", " ", "k", " ", "*", " ">>
           \o to_string(d.N),
       <<"    ", "    ", "    ", "t4", " ", "=", " ", "t3", " ", "+", " ", "j">>,
       <<"    ", "    ", "    ", "t5", " ", "=", " ", "A", "[", "t2", "]">>,
       <<"    ", "    ", "    ", "t6", " ", "=", " ", "B", "[", "t4", "]">>,
       <<"    ", "    ", "    ", "t7", " ", "=", " ", "t5", " ", "*", " ", "t6">>,
       <<"    ", "    ", "    ", "sum", " ", "=", " ", "sum", " ", "+", " ", "t7">>,
       <<"    ", "    ", "    ", "k", " ", "=", " ", "k", " ", "+", " ", "1">>,
       <<"    ", "    ", "    ", "goto", " ", "L3">>,
       <<"    ", "    ", "END_L3", ":">>,
       <<"    ", "    ", "t8", " ", "=", " ", "i", " ", "*", " ">> \o to_string(d.N),
       <<"    ", "    ", "t9", " ", "=", " ", "t8", " ", "+", " ", "j">>,
       <<"    ", "    ", "C", "[", "t9", "]", " ", "=", " ", "sum">>,
       <<"    ", "    ", "j", " ", "=", " ", "j", " ", "+", " ", "1">>,
       <<"    ", "    ", "goto", " ", "L2">>,
       <<"    ", "END_L2", ":">>,
       <<"    ", "i", " ", "=", " ", "i", " ", "+", " ", "1">>,
       <<"    ", "goto", " ", "L1">>,
       <<"END_L1", ":">> >>

\* mutant: the row stride of B is taken to be K
generateThreeAddressCode_StrideK(d) ==
    << <<"i", " ", "=", " ", "0">>,
       <<"L1", ":", " ", "if", " ", "i", " ", ">=", " ">> \o to_string(d.M)
           \o <<" ", "goto", " ", "END_L1">>,
       <<"    ", "j", " ", "=", " ", "0">>,
       <<"    ", "L2", ":", " ", "if", " ", "j", " ", ">=", " ">> \o to_string(d.N)
           \o <<" ", "goto", " ", "END_L2">>,
       <<"    ", "    ", "sum", " ", "=", " ", "0">>,
       <<"    ", "    ", "k", " ", "=", " ", "0">>,
       <<"    ", "    ", "L3", ":", " ", "if", " ", "k", " ", ">=", " ">>
           \o to_string(d.K) \o <<" ", "goto", " ", "END_L3">>,
       <<"    ", "    ", "    ", "t1", " ", "=", " ", "i", " ", "*", " ">>
           \o to_string(d.K),
       <<"    ", "    ", "    ", "t2", " ", "=", " ", "t1", " ", "+", " ", "k">>,
       <<"    ", "    ", "    ", "t3", " ", "=", " ", "k", " ", "*", " ">>
           \o to_string(d.K),
       <<"    ", "    ", "    ", "t4", " ", "=", " ", "t3", " ", "+", " ", "j">>,
       <<"    ", "    ", "    ", "t5", " ", "=", " ", "A", "[", "t2", "]">>,
       <<"    ", "    ", "    ", "t6", " ", "=", " ", "B", "[", "t4", "]">>,
       <<"    ", "    ", "    ", "t7", " ", "=", " ", "t5", " ", "*", " ", "t6">>,
       <<"    ", "    ", "    ", "sum", " ", "=", " ", "sum", " ", "+", " ", "t7">>,
       <<"    ", "    ", "    ", "k", " ", "=", " ", "k", " ", "+", " ", "1">>,
       <<"    ", "    ", "    ", "goto", " ", "L3">>,
       <<"    ", "    ", "END_L3", ":">>,
       <<"    ", "    ", "t8", " ", "=", " ", "i", " ", "*", " ">> \o to_string(d.N),
       <<"    ", "    ", "t9", " ", "=", " ", "t8", " ", "+", " ", "j">>,
       <<"    ", "    ", "C", "[", "t9", "]", " ", "=", " ", "sum">>,
       <<"    ", "    ", "j", " ", "=", " ", "j", " ", "+", " ", "1">>,
       <<"    ", "    ", "goto", " ", "L2">>,
       <<"    ", "END_L2", ":">>,
       <<"    ", "i", " ", "=", " ", "i", " ", "+", " ", "1">>,
       <<"    ", "goto", " ", "L1">>,
       <<"END_L1", ":">> >>

generateThreeAddressCode(d) ==
    << <<"i", " ", "=", " ", "0">>,
       <<"L1", ":", " ", "if", " ", "i", " ", ">=", " ">> \o to_string(d.M)
           \o <<" ", "goto", " ", "END_L1">>,
       <<"    ", "j", " ", "=", " ", "0">>,
       <<"    ", "L2", ":", " ", "if", " ", "j", " ", ">=", " ">> \o to_string(d.N)
           \o <<" ", "goto", " ", "END_L2">>,
       <<"    ", "    ", "sum", " ", "=", " ", "0">>,
       <<"    ", "    ", "k", " ", "=", " ", "0">>,
       <<"    ", "    ", "L3", ":", " ", "if", " ", "k", " ", ">=", " ">>
           \o to_string(d.K) \o <<" ", "goto", " ", "END_L3">>,
       <<"    ", "    ", "    ", "t1", " ", "=", " ", "i", " ", "*", " ">>
           \o to_string(d.K),
       <<"    ", "    ", "    ", "t2", " ", "=", " ", "t1", " ", "+", " ", "k">>,
       <<"    ", "    ", "    ", "t3", " ", "=", " ", "k", " ", "*", " ">>
           \o to_string(d.N),
       <<"    ", "    ", "    ", "t4", " ", "=", " ", "t3", " ", "+", " ", "j">>,
       <<"    ", "    ", "    ", "t5", " ", "=", " ", "A", "[", "t2", "]">>,
       <<"    ", "    ", "    ", "t6", " ", "=", " ", "B", "[", "t4", "]">>,
       <<"    ", "    ", "    ", "t7", " ", "=", " ", "t5", " ", "*", " ", "t6">>,
       <<"    ", "    ", "    ", "sum", " ", "=", " ", "sum", " ", "+", " ", "t7">>,
       <<"    ", "    ", "    ", "k", " ", "=", " ", "k", " ", "+", " ", "1">>,
       <<"    ", "    ", "    ", "goto", " ", "L3">>,
       <<"    ", "    ", "END_L3", ":">>,
       <<"    ", "    ", "t8", " ", "=", " ", "i", " ", "*", " ">> \o to_string(d.N),
       <<"    ", "    ", "t9", " ", "=", " ", "t8", " ", "+", " ", "j">>,
       <<"    ", "    ", "C", "[", "t9", "]", " ", "=", " ", "sum">>,
       <<"    ", "    ", "j", " ", "=", " ", "j", " ", "+", " ", "1">>,
       <<"    ", "    ", "goto", " ", "L2">>,
       <<"    ", "END_L2", ":">>,
       <<"    ", "i", " ", "=", " ", "i", " ", "+", " ", "1">>,
       <<"    ", "goto", " ", "L1">>,
       <<"END_L1", ":">> >>

\* main.cpp writeThreeAddressCodeToFile: two header lines, a blank line, the code
writeThreeAddressCodeToFile(tac) ==
    << <<"#", " Three-Address Code for Matrix Multiplication">>,
       <<"#", " =====================================">>,
       << >> >> \o tac

-----------------------------------------------------------------------------
(* Work partitioner (parallelizer.cpp) *)

\* mutant: the quotient is rounded down
CeilOfQuotient_Floor(a, b) ==
    a \div b

\* std::ceil(static_cast<double>(a) / b) converted to int, for a >= 0, b > 0:
\* the quotient of two small ints is a double within one ulp of the exact
\* value, and its ceiling is the exact ceiling.
CeilOfQuotient(a, b) ==
    IF a % b = 0 THEN a \div b ELSE (a \div b) + 1

\* mutant: with more cores than rows everything is given to one core
EffectiveCores_ClampToOne(d, nCores) ==
    IF nCores > d.M THEN 1 ELSE nCores

\* numCores after the clamp to the number of rows
EffectiveCores(d, nCores) ==
    IF nCores > d.M THEN d.M ELSE nCores

\* mutant: the end row is not capped at M - 1
CoreWork_NoCap(d, rowsPerCore, core) ==
    LET work == [coreId   |-> core,
                 startRow |-> core * rowsPerCore,
                 endRow   |-> (core + 1) * rowsPerCore - 1]
    IN  IF work.startRow <= work.endRow THEN <<work>> ELSE << >>

\* mutant: the cores whose range is empty are kept
CoreWork_KeepEmpty(d, rowsPerCore, core) ==
    << [coreId   |-> core,
        startRow |-> core * rowsPerCore,
        endRow   |-> Min((core + 1) * rowsPerCore - 1, d.M - 1)] >>

\* one iteration of the loop over the cores: the pushed assignment, or nothing
CoreWork(d, rowsPerCore, core) ==
    LET work == [coreId   |-> core,
                 startRow |-> core * rowsPerCore,
                 endRow   |-> Min((core + 1) * rowsPerCore - 1, d.M - 1)]
    IN  IF work.startRow <= work.endRow THEN <<work>> ELSE << >>

distributeWork(d, nCores) ==
    LET n           == EffectiveCores(d, nCores)
        rowsPerCore == CeilOfQuotient(d.M, n)
    IN  ConcatRange([core \in 0 .. (n - 1) |-> CoreWork(d, rowsPerCore, core)], 0, n - 1)

-----------------------------------------------------------------------------
(* Memory layout planner (memory_layout.cpp) *)

\* mutant: B is placed at the row count of A rounded down
optimizeMemoryLayout_FloorRows(d) ==
    LET sizeA == d.M * d.K
        sizeB == d.K * d.N
        rowsA == CDiv(sizeA, MEMORY_ROW_SIZE)
        rowsB == CDiv(sizeB, MEMORY_ROW_SIZE)
    IN  [rowsPerMatrixRowA |-> CDiv(d.K + MEMORY_ROW_SIZE - 1, MEMORY_ROW_SIZE),
         rowsPerMatrixRowB |-> CDiv(d.N + MEMORY_ROW_SIZE - 1, MEMORY_ROW_SIZE),
         rowsPerMatrixRowC |-> CDiv(d.N + MEMORY_ROW_SIZE - 1, MEMORY_ROW_SIZE),
         baseAddrA |-> 0,
         baseAddrB |-> rowsA,
         baseAddrC |-> rowsA + rowsB,
         rowSizeA  |-> d.K,
         rowSizeB  |-> d.N,
         rowSizeC  |-> d.N]

optimizeMemoryLayout(d) ==
    LET sizeA == d.M * d.K
        sizeB == d.K * d.N
        sizeC == d.M * d.N
        rowsA == CDiv(sizeA + MEMORY_ROW_SIZE - 1, MEMORY_ROW_SIZE)
        rowsB == CDiv(sizeB + MEMORY_ROW_SIZE - 1, MEMORY_ROW_SIZE)
        rowsC == CDiv(sizeC + MEMORY_ROW_SIZE - 1, MEMORY_ROW_SIZE)
    IN  [rowsPerMatrixRowA |-> CDiv(d.K + MEMORY_ROW_SIZE - 1, MEMORY_ROW_SIZE),
         rowsPerMatrixRowB |-> CDiv(d.N + MEMORY_ROW_SIZE - 1, MEMORY_ROW_SIZE),
         rowsPerMatrixRowC |-> CDiv(d.N + MEMORY_ROW_SIZE - 1, MEMORY_ROW_SIZE),
         baseAddrA |-> 0,
         baseAddrB |-> rowsA,
         baseAddrC |-> rowsA + rowsB,
         rowSizeA  |-> d.K,
         rowSizeB  |-> d.N,
         rowSizeC  |-> d.N]

-----------------------------------------------------------------------------
(* Core instruction sequencer (core_sequence.cpp) *)

\* mutant: the segments of row i are addressed from baseAddrA + i
SegmentLoad_NoRowStride(coreId, i, segment, memMap) ==
    LET aRowBase     == memMap.baseAddrA + i
        aSegmentAddr == aRowBase + segment
    IN  << genExeInstr(coreId, TRUE, FALSE, aSegmentAddr),
           genExeInstr(coreId, FALSE, FALSE, 0) >>

\* the load of one memory-row segment of row i of A (rowsPerMatrixRowA > 1)
SegmentLoad(coreId, i, segment, memMap) ==
    LET aRowBase     == memMap.baseAddrA + (i * memMap.rowsPerMatrixRowA)
        aSegmentAddr == aRowBase + segment
    IN  << genExeInstr(coreId, TRUE, FALSE, aSegmentAddr),
           genExeInstr(coreId, FALSE, FALSE, 0) >>

\* the load of row i of A: per segment, or the single memory row and offset
RowLoad(coreId, i, memMap) ==
    IF memMap.rowsPerMatrixRowA > 1
    THEN ConcatRange([segment \in 0 .. (memMap.rowsPerMatrixRowA - 1) |->
                         SegmentLoad(coreId, i, segment, memMap)],
                     0, memMap.rowsPerMatrixRowA - 1)
    ELSE LET aRowAddr   == memMap.baseAddrA + CDiv(i * memMap.rowSizeA, MEMORY_ROW_SIZE)
             aRowOffset == CMod(i * memMap.rowSizeA, MEMORY_ROW_SIZE)
         IN  << genExeInstr(coreId, TRUE, FALSE, aRowAddr),
                genExeInstr(coreId, FALSE, FALSE, aRowOffset) >>

\* mutant: the multiply-accumulate is left out of the k loop
DotProductStep_NoMac(coreId, j, k, memMap) ==
    LET bIndex  == k * memMap.rowSizeB + j
        bAddr   == memMap.baseAddrB + CDiv(bIndex, MEMORY_ROW_SIZE)
        bOffset == CMod(bIndex, MEMORY_ROW_SIZE)
    IN  << genExeInstr(coreId, TRUE, FALSE, bAddr),
           genExeInstr(coreId, FALSE, FALSE, bOffset) >>

\* mutant: B is indexed as its transpose
DotProductStep_Transposed(coreId, j, k, memMap) ==
    LET bIndex  == j * memMap.rowSizeB + k
        bAddr   == memMap.baseAddrB + CDiv(bIndex, MEMORY_ROW_SIZE)
        bOffset == CMod(bIndex, MEMORY_ROW_SIZE)
    IN  << genExeInstr(coreId, TRUE, FALSE, bAddr),
           genExeInstr(coreId, FALSE, FALSE, bOffset),
           genExeInstr(coreId, FALSE, FALSE, OP_MAC) >>

\* one iteration of the k loop: load B[k][j], multiply-accumulate
DotProductStep(coreId, j, k, memMap) ==
    LET bIndex  == k * memMap.rowSizeB + j
        bAddr   == memMap.baseAddrB + CDiv(bIndex, MEMORY_ROW_SIZE)
        bOffset == CMod(bIndex, MEMORY_ROW_SIZE)
    IN  << genExeInstr(coreId, TRUE, FALSE, bAddr),
           genExeInstr(coreId, FALSE, FALSE, bOffset),
           genExeInstr(coreId, FALSE, FALSE, OP_MAC) >>

\* mutant: the element C[i][j] is stored at index i + j
ColumnBlock_NoRowStride(coreId, i, j, d, memMap) ==
    LET cIndex  == i + j
        cAddr   == memMap.baseAddrC + CDiv(cIndex, MEMORY_ROW_SIZE)
        cOffset == CMod(cIndex, MEMORY_ROW_SIZE)
    IN  << <<"#", " Computing element C[">> \o to_string(i) \o <<"][">>
               \o to_string(j) \o <<"]">>,
           genExeInstr(coreId, FALSE, FALSE, 0) >>
        \o ConcatRange([k \in 0 .. (d.K - 1) |-> DotProductStep(coreId, j, k, memMap)],
                       0, d.K - 1)
        \o << genExeInstr(coreId, FALSE, TRUE, cAddr),
              genExeInstr(coreId, FALSE, FALSE, cOffset) >>

\* one iteration of the j loop: comment, clear, the k loop, the store of C[i][j]
ColumnBlock(coreId, i, j, d, memMap) ==
    LET cIndex  == i * memMap.rowSizeC + j
        cAddr   == memMap.baseAddrC + CDiv(cIndex, MEMORY_ROW_SIZE)
        cOffset == CMod(cIndex, MEMORY_ROW_SIZE)
    IN  << <<"#", " Computing element C[">> \o to_string(i) \o <<"][">>
               \o to_string(j) \o <<"]">>,
           genExeInstr(coreId, FALSE, FALSE, 0) >>
        \o ConcatRange([k \in 0 .. (d.K - 1) |-> DotProductStep(coreId, j, k, memMap)],
                       0, d.K - 1)
        \o << genExeInstr(coreId, FALSE, TRUE, cAddr),
              genExeInstr(coreId, FALSE, FALSE, cOffset) >>

\* one iteration of the i loop: comment, the load of row i of A, the j loop
RowBlock(coreId, i, d, memMap) ==
    << <<"#", " Processing row ">> \o to_string(i) >>
    \o RowLoad(coreId, i, memMap)
    \o ConcatRange([j \in 0 .. (d.N - 1) |-> ColumnBlock(coreId, i, j, d, memMap)],
                   0, d.N - 1)

\* mutant: the core is not programmed before its rows
generateCoreInstructions_NoProg(coreId, startRow, endRow, d, memMap) ==
    << <<"#", " Instructions for Core ">> \o to_string(coreId) \o <<" (Rows ">>
           \o to_string(startRow) \o <<" to ">> \o to_string(endRow) \o <<")">> >>
    \o ConcatRange([i \in startRow .. endRow |-> RowBlock(coreId, i, d, memMap)],
                   startRow, endRow)
    \o << genEndInstr(coreId, FALSE, FALSE, 0) >>

generateCoreInstructions(coreId, startRow, endRow, d, memMap) ==
    << <<"#", " Instructions for Core ">> \o to_string(coreId) \o <<" (Rows ">>
           \o to_string(startRow) \o <<" to ">> \o to_string(endRow) \o <<")">>,
       genProgInstr(coreId, TRUE, FALSE, FUNC_MATMUL) >>
    \o ConcatRange([i \in startRow .. endRow |-> RowBlock(coreId, i, d, memMap)],
                   startRow, endRow)
    \o << genEndInstr(coreId, FALSE, FALSE, 0) >>

-----------------------------------------------------------------------------
(* Inputs *)

Dim(m, n, k) ==
    [M |-> m, N |-> n, K |-> k]

\* the small dimensions the parser can hand to main, positive or not
SmallDims ==
    {Dim(m, n, k) : m \in 1 .. MaxM, n \in 1 .. MaxN, k \in 1 .. MaxK}
    \cup {Dim(0, 2, 2), Dim(2, 2, 0)}

\* dimensions around the memory row width (a row of A wider than a memory row,
\* rows of A and of B that straddle memory rows) and the core-id width
WideDims ==
    {Dim(1, 1, MEMORY_ROW_SIZE + 1),
     Dim(2, 1, MEMORY_ROW_SIZE + 1),
     Dim(2, 1, 300),
     Dim(1, 257, 2),
     Dim(2, 1, MEMORY_ROW_SIZE \div 2),
     Dim(CORE_MASK + 2, 1, 1)}

\* the wide dimensions are run without overrides, on 2 cores and on 65
ParsedDims ==
    SmallDims
    \cup (IF <<overrideM, overrideN, overrideK>> = <<-1, -1, -1>>
             /\ numCores \in {2, CORE_MASK + 2}
          THEN WideDims ELSE {})

\* -c
CoreCounts ==
    (1 .. MaxCores) \cup {CORE_MASK + 2}

\* -M, -N, -K: none, or one of them, zero or positive
Overrides ==
    {<<-1, -1, -1>>, <<0, -1, -1>>, <<3, -1, -1>>, <<-1, 0, -1>>, <<-1, 2, -1>>,
     <<-1, -1, 0>>, <<-1, -1, 1>>}

NoDims ==
    [M |-> 0, N |-> 0, K |-> 0]

NoMap ==
    [rowsPerMatrixRowA |-> 0, rowsPerMatrixRowB |-> 0, rowsPerMatrixRowC |-> 0,
     baseAddrA |-> 0, baseAddrB |-> 0, baseAddrC |-> 0,
     rowSizeA |-> 0, rowSizeB |-> 0, rowSizeC |-> 0]

NoCall ==
    [fn |-> "none", args |-> << >>, result |-> << >>]

\* main.cpp 70-77: the locals before the arguments are read
NoCli ==
    [argv       |-> << >>,
     i          |-> 1,
     inputFile  |-> << >>,
     outputFile |-> <<"o", "u", "t", "p", "u", "t", ".", "p", "i", "m">>,
     parserType |-> 1,
     usage      |-> FALSE]

NoParser ==
    [stage |-> "none"]

NoExec ==
    [ip |-> 0]

NoSequences ==
    << >>

SideStart ==
    /\ cli = NoCli
    /\ parser = NoParser
    /\ exec = NoExec
    /\ sequences = NoSequences

-----------------------------------------------------------------------------
(* The driver (main.cpp) *)

\* !instr.empty() && instr[0] != '#'
IsInstruction(instr) ==
    instr /= << >> /\ instr[1] /= "#"

PipelineStart ==
    /\ pc = "parse"
    /\ dims = NoDims
    /\ threeAddressCode = << >>
    /\ tacFile = << >>
    /\ workAssignments = << >>
    /\ memoryMap = NoMap
    /\ allInstructions = << >>
    /\ workIdx = 0
    /\ outFile = << >>
    /\ dataInstructions = 0
    /\ coreInstructions = << >>

\* every core count without overrides, every override with the default count
Init ==
    /\ \E o \in Overrides :
           /\ overrideM = o[1]
           /\ overrideN = o[2]
           /\ overrideK = o[3]
           /\ numCores \in (IF o = <<-1, -1, -1>> THEN CoreCounts
                             ELSE {DEFAULT_CORES})
    /\ PipelineStart
    /\ call = NoCall
    /\ SideStart

\* Step 1: the selected parser returns the dimensions
ParseInput ==
    /\ pc = "parse"
    /\ \E d \in ParsedDims : dims' = d
    /\ pc' = "validate"
    /\ UNCHANGED <<numCores, overrideM, overrideN, overrideK, threeAddressCode,
                   tacFile, workAssignments, memoryMap, allInstructions, workIdx,
                   outFile, dataInstructions, coreInstructions, call, sideVars>>

\* the check of the parsed dimensions
Validate ==
    /\ pc = "validate"
    /\ pc' = IF dims.M <= 0 \/ dims.N <= 0 \/ dims.K <= 0 THEN "exit1" ELSE "override"
    /\ UNCHANGED <<numCores, overrideM, overrideN, overrideK, dims, threeAddressCode,
                   tacFile, workAssignments, memoryMap, allInstructions, workIdx,
                   outFile, dataInstructions, coreInstructions, call, sideVars>>

\* the command-line overrides
ApplyOverrides ==
    /\ pc = "override"
    /\ dims' = [M |-> IF overrideM > 0 THEN overrideM ELSE dims.M,
                N |-> IF overrideN > 0 THEN overrideN ELSE dims.N,
                K |-> IF overrideK > 0 THEN overrideK ELSE dims.K]
    /\ pc' = "tac"
    /\ UNCHANGED <<numCores, overrideM, overrideN, overrideK, threeAddressCode,
                   tacFile, workAssignments, memoryMap, allInstructions, workIdx,
                   outFile, dataInstructions, coreInstructions, call, sideVars>>

\* Step 2: the three-address code, written to <output>.tac; when the file
\* cannot be opened nothing is written and the compile goes on
GenerateTac ==
    /\ pc = "tac"
    /\ threeAddressCode' = generateThreeAddressCode(dims)
    /\ \/ tacFile' = writeThreeAddressCodeToFile(threeAddressCode')
       \/ tacFile' = << >>
    /\ pc' = "distribute"
    /\ UNCHANGED <<numCores, overrideM, overrideN, overrideK, dims, workAssignments,
                   memoryMap, allInstructions, workIdx, outFile, dataInstructions,
                   coreInstructions, call, sideVars>>

\* Step 3
DistributeWork ==
    /\ pc = "distribute"
    /\ workAssignments' = distributeWork(dims, numCores)
    /\ pc' = "layout"
    /\ UNCHANGED <<numCores, overrideM, overrideN, overrideK, dims, threeAddressCode,
                   tacFile, memoryMap, allInstructions, workIdx, outFile,
                   dataInstructions, coreInstructions, call, sideVars>>

\* Step 4
OptimizeLayout ==
    /\ pc = "layout"
    /\ memoryMap' = optimizeMemoryLayout(dims)
    /\ pc' = "header"
    /\ UNCHANGED <<numCores, overrideM, overrideN, overrideK, dims, threeAddressCode,
                   tacFile, workAssignments, allInstructions, workIdx, outFile,
                   dataInstructions, coreInstructions, call, sideVars>>

\* Step 5: the header comment
EmitHeader ==
    /\ pc = "header"
    /\ allInstructions' =
           << <<"#", " PIM Instructions for Matrix Multiplication">>,
              <<"#", " Matrix dimensions: ">> \o to_string(dims.M) \o <<"x">>
                  \o to_string(dims.K) \o <<" * ">> \o to_string(dims.K) \o <<"x">>
                  \o to_string(dims.N),
              <<"#", " Using ">> \o to_string(Len(workAssignments)) \o <<" cores">>,
              << >> >>
    /\ workIdx' = 1
    /\ pc' = "cores"
    /\ UNCHANGED <<numCores, overrideM, overrideN, overrideK, dims, threeAddressCode,
                   tacFile, workAssignments, memoryMap, outFile, dataInstructions,
                   coreInstructions, call, sideVars>>

\* mutant: the sequence of a core is put in front of the program
GenerateCore_Prepend ==
    /\ pc = "cores"
    /\ workIdx <= Len(workAssignments)
    /\ LET work == workAssignments[workIdx]
           ci   == generateCoreInstructions(work.coreId, work.startRow, work.endRow,
                                            dims, memoryMap)
       IN  /\ coreInstructions' = ci
           /\ allInstructions' = ci \o << << >> >> \o allInstructions
    /\ workIdx' = workIdx + 1
    /\ UNCHANGED <<pc, numCores, overrideM, overrideN, overrideK, dims,
                   threeAddressCode, tacFile, workAssignments, memoryMap, outFile,
                   dataInstructions, call, sideVars>>

\* Step 5: one iteration of the loop over the work assignments
GenerateCore ==
    /\ pc = "cores"
    /\ workIdx <= Len(workAssignments)
    /\ LET work == workAssignments[workIdx]
           ci   == generateCoreInstructions(work.coreId, work.startRow, work.endRow,
                                            dims, memoryMap)
           sep  == IF allInstructions /= << >>
                      /\ allInstructions[Len(allInstructions)] /= << >>
                   THEN << << >> >> ELSE << >>
       IN  /\ coreInstructions' = ci
           /\ allInstructions' = allInstructions \o sep \o ci
    /\ workIdx' = workIdx + 1
    /\ UNCHANGED <<pc, numCores, overrideM, overrideN, overrideK, dims,
                   threeAddressCode, tacFile, workAssignments, memoryMap, outFile,
                   dataInstructions, call, sideVars>>

\* the line written for one entry of allInstructions
OutputLine(instr) ==
    IF IsInstruction(instr)
    THEN instr \o <<" # Binary: ">> \o hexToBinary(instr)
    ELSE instr

\* Step 6: the output file is written
WriteOutput ==
    /\ pc = "cores"
    /\ workIdx > Len(workAssignments)
    /\ outFile' = [i \in 1 .. Len(allInstructions) |-> OutputLine(allInstructions[i])]
    /\ pc' = "stats"
    /\ UNCHANGED <<numCores, overrideM, overrideN, overrideK, dims, threeAddressCode,
                   tacFile, workAssignments, memoryMap, allInstructions, workIdx,
                   dataInstructions, coreInstructions, call, sideVars>>

\* Step 6: the output file cannot be opened
OutputOpenFails ==
    /\ pc = "cores"
    /\ workIdx > Len(workAssignments)
    /\ pc' = "exit1"
    /\ UNCHANGED <<numCores, overrideM, overrideN, overrideK, dims, threeAddressCode,
                   tacFile, workAssignments, memoryMap, allInstructions, workIdx,
                   outFile, dataInstructions, coreInstructions, call, sideVars>>

\* the statistics
Statistics ==
    /\ pc = "stats"
    /\ dataInstructions' =
           Cardinality({i \in 1 .. Len(allInstructions) : IsInstruction(allInstructions[i])})
    /\ pc' = "exit0"
    /\ UNCHANGED <<numCores, overrideM, overrideN, overrideK, dims, threeAddressCode,
                   tacFile, workAssignments, memoryMap, allInstructions, workIdx,
                   outFile, coreInstructions, call, sideVars>>

Next ==
    \/ ParseInput
    \/ Validate
    \/ ApplyOverrides
    \/ GenerateTac
    \/ DistributeWork
    \/ OptimizeLayout
    \/ EmitHeader
    \/ GenerateCore
    \/ WriteOutput
    \/ OutputOpenFails
    \/ Statistics

Spec ==
    Init /\ [][Next]_vars

-----------------------------------------------------------------------------
(* The instruction generators called on their own *)

EncCoreIds ==
    UNION {(b - EncSpan) .. (b + EncSpan) : b \in {-64, 0, 32, 64, 2048}}

EncAddrs ==
    UNION {(b - EncSpan) .. (b + EncSpan) : b \in {-512, 0, 256, 512, 4096}}

\* the arguments of the call to come
InitEnc ==
    /\ numCores = DEFAULT_CORES
    /\ overrideM = -1
    /\ overrideN = -1
    /\ overrideK = -1
    /\ PipelineStart
    /\ \E c \in EncCoreIds, r \in BOOLEAN, w \in BOOLEAN, a \in EncAddrs :
           call = [fn |-> "none", args |-> <<c, r, w, a>>, result |-> << >>]
    /\ SideStart

\* genNoOpInstr takes no arguments
CallNoOp ==
    /\ call.fn = "none"
    /\ call' = [fn |-> "genNoOpInstr", args |-> << >>, result |-> genNoOpInstr]
    /\ UNCHANGED <<pipelineVars, sideVars>>

CallProg ==
    /\ call.fn = "none"
    /\ call' = [call EXCEPT !.fn = "genProgInstr",
                            !.result = genProgInstr(call.args[1], call.args[2],
                                                    call.args[3], call.args[4])]
    /\ UNCHANGED <<pipelineVars, sideVars>>

CallExe ==
    /\ call.fn = "none"
    /\ call' = [call EXCEPT !.fn = "genExeInstr",
                            !.result = genExeInstr(call.args[1], call.args[2],
                                                   call.args[3], call.args[4])]
    /\ UNCHANGED <<pipelineVars, sideVars>>

CallEnd ==
    /\ call.fn = "none"
    /\ call' = [call EXCEPT !.fn = "genEndInstr",
                            !.result = genEndInstr(call.args[1], call.args[2],
                                                   call.args[3], call.args[4])]
    /\ UNCHANGED <<pipelineVars, sideVars>>

NextEnc ==
    \/ CallNoOp
    \/ CallProg
    \/ CallExe
    \/ CallEnd

SpecEnc ==
    InitEnc /\ [][NextEnc]_vars

-----------------------------------------------------------------------------
(* Reading an encoded word back *)

\* the value of bits hi..lo of a word, read off its binary expansion (bit b
\* of a 24-bit word is character 24 - b of the expansion, counted from 1)
RECURSIVE FieldBits(_, _, _)
FieldBits(bin, hi, lo) ==
    IF hi < lo THEN 0
    ELSE (IF bin[Len(bin) - lo] = "1" THEN 1 ELSE 0) + 2 * FieldBits(bin, hi, lo + 1)

\* the fields of a word by the layout opcode 18-17, coreId 16-11, read 10,
\* write 9, address 8-0, and the bits above bit 18
Decode(text) ==
    LET bin == hexToBinary(text)
    IN  [opcode |-> FieldBits(bin, 18, 17),
         coreId |-> FieldBits(bin, 16, 11),
         read   |-> FieldBits(bin, 10, 10) = 1,
         write  |-> FieldBits(bin, 9, 9) = 1,
         addr   |-> FieldBits(bin, 8, 0),
         high   |-> FieldBits(bin, 23, 19)]

\* the value of a string of lowercase hex digits
RECURSIVE HexValue(_)
HexValue(text) ==
    IF text = << >> THEN 0
    ELSE LET last == text[Len(text)]
             d    == CHOOSE v \in 0 .. 15 : HexChars[v + 1] = last
         IN  d + 16 * HexValue(SubSeq(text, 1, Len(text) - 1))

IsHexWord(text) ==
    /\ Len(text) = HEX_WIDTH
    /\ \A i \in 1 .. Len(text) : \E v \in 0 .. 15 : HexChars[v + 1] = text[i]

\* the opcode of each generator
OpcodeOf(fn) ==
    CASE fn = "genNoOpInstr" -> 0
      [] fn = "genProgInstr" -> 1
      [] fn = "genExeInstr"  -> 2
      [] fn = "genEndInstr"  -> 3

Called ==
    call.fn /= "none"

\* the fields a call passes; genNoOpInstr passes none, which leaves them zero
CallFields ==
    IF call.fn = "genNoOpInstr"
    THEN [coreId |-> 0, read |-> FALSE, write |-> FALSE, addr |-> 0]
    ELSE [coreId |-> call.args[1], read |-> call.args[2],
          write  |-> call.args[3], addr |-> call.args[4]]

\* what is true once the work has been distributed
Partitioned ==
    pc \in {"layout", "header", "cores", "stats", "exit0"}

\* what is true once the memory layout has been planned
Planned ==
    pc \in {"header", "cores", "stats", "exit0"}

\* a core's sequence has just been returned to the driver
CoreGenerated ==
    pc = "cores" /\ workIdx > 1

LastWork ==
    workAssignments[workIdx - 1]

\* the non-comment lines of the sequence last returned
CoreWords ==
    SelectSeq(coreInstructions, IsInstruction)

-----------------------------------------------------------------------------
(* Work partitioner *)

\* C1: for 1 <= c <= M the assignments are in strictly ascending coreId
\* order, start at row 0, end at row M-1, each starts right after the
\* previous one ends, and every row of [0, M-1] is in exactly one of them.
C1_OrderedContiguousPartition ==
    (Partitioned /\ numCores >= 1 /\ numCores <= dims.M) =>
        LET w == workAssignments
        IN  /\ Len(w) >= 1
            /\ w[1].startRow = 0
            /\ w[Len(w)].endRow = dims.M - 1
            /\ \A n \in 1 .. (Len(w) - 1) :
                   /\ w[n].coreId < w[n + 1].coreId
                   /\ w[n + 1].startRow = w[n].endRow + 1
            /\ \A row \in 0 .. (dims.M - 1) :
                   Cardinality({n \in 1 .. Len(w) :
                                   w[n].startRow <= row /\ row <= w[n].endRow}) = 1

\* 4 rows on 3 requested cores: two cores of 2 rows, the third is dropped
C1_Witness ==
    /\ Partitioned
    /\ dims.M = 4
    /\ numCores = 3
    /\ Len(workAssignments) = 2
    /\ workAssignments[2].startRow = 2

\* C2: for c > M the partitioner does not fail and returns exactly M
\* assignments, assignment n with coreId n and the single row n; in no case
\* does it return more assignments than rows.
C2_ClampToRows ==
    Partitioned =>
        /\ Len(workAssignments) <= dims.M
        /\ numCores > dims.M =>
               /\ Len(workAssignments) = dims.M
               /\ \A n \in 0 .. (dims.M - 1) :
                      workAssignments[n + 1] = [coreId |-> n, startRow |-> n, endRow |-> n]

C2_Witness ==
    /\ Partitioned
    /\ numCores = 5
    /\ dims.M = 2
    /\ Len(workAssignments) = 2
    /\ workAssignments[2] = [coreId |-> 1, startRow |-> 1, endRow |-> 1]

\* C3: every assignment returned has 0 <= startRow <= endRow <= M-1, and the
\* driver never calls generateCoreInstructions with an empty row range.
C3_NonEmptyRanges ==
    /\ Partitioned =>
           \A n \in 1 .. Len(workAssignments) :
               /\ 0 <= workAssignments[n].startRow
               /\ workAssignments[n].startRow <= workAssignments[n].endRow
               /\ workAssignments[n].endRow <= dims.M - 1
    /\ CoreGenerated => LastWork.startRow <= LastWork.endRow

\* 4 rows on 3 requested cores, both surviving cores generated
C3_Witness ==
    /\ pc = "cores"
    /\ dims.M = 4
    /\ numCores = 3
    /\ workIdx = 3
    /\ Len(workAssignments) = 2
    /\ coreInstructions /= << >>

-----------------------------------------------------------------------------
(* Memory layout planner *)

\* C4: baseAddrA = 0 < baseAddrB < baseAddrC, with baseAddrB - baseAddrA =
\* ceil(M*K/512) and baseAddrC - baseAddrB = ceil(K*N/512).
C4_LayoutBackToBack ==
    Planned =>
        /\ memoryMap.baseAddrA = 0
        /\ memoryMap.baseAddrA < memoryMap.baseAddrB
        /\ memoryMap.baseAddrB < memoryMap.baseAddrC
        /\ (memoryMap.baseAddrB - memoryMap.baseAddrA) * MEMORY_ROW_SIZE >= dims.M * dims.K
        /\ (memoryMap.baseAddrB - memoryMap.baseAddrA - 1) * MEMORY_ROW_SIZE < dims.M * dims.K
        /\ (memoryMap.baseAddrC - memoryMap.baseAddrB) * MEMORY_ROW_SIZE >= dims.K * dims.N
        /\ (memoryMap.baseAddrC - memoryMap.baseAddrB - 1) * MEMORY_ROW_SIZE < dims.K * dims.N

\* A and B of 513 elements each take two memory rows
C4_Witness ==
    /\ Planned
    /\ dims = Dim(1, 1, MEMORY_ROW_SIZE + 1)
    /\ memoryMap.baseAddrB = 2
    /\ memoryMap.baseAddrC = 4

-----------------------------------------------------------------------------
(* Instruction encoder *)

\* C5: the encoded word is (opcode<<17) | ((coreId & 0x3F)<<11) | (read<<10)
\* | (write<<9) | (addr & 0x1FF): bits 18-17 are the opcode whatever the
\* other fields are, the bits above bit 18 are zero, and the text is that
\* value as exactly 6 zero-padded hex digits.
C5_EncodingLayout ==
    Called =>
        LET f == CallFields
            v == HexValue(call.result)
        IN  /\ IsHexWord(call.result)
            /\ v = OpcodeOf(call.fn) * 131072 + (f.coreId % 64) * 2048
                     + BoolBit(f.read) * 1024 + BoolBit(f.write) * 512 + (f.addr % 512)
            /\ v \div 131072 = OpcodeOf(call.fn)
            /\ v < 524288

\* END with every field bit set
C5_Witness ==
    /\ call.fn = "genEndInstr"
    /\ call.args = <<63, TRUE, TRUE, 511>>
    /\ call.result = <<"0", "7", "f", "f", "f", "f">>

\* the calls the current one is compared with for distinctness
ProbeCalls ==
    {<<fn, c, r, w, a>> : fn \in {"genProgInstr", "genExeInstr", "genEndInstr"},
                          c \in {0, 63}, r \in BOOLEAN, w \in BOOLEAN,
                          a \in {0, 511}}

ProbeResult(p) ==
    CASE p[1] = "genProgInstr" -> genProgInstr(p[2], p[3], p[4], p[5])
      [] p[1] = "genExeInstr"  -> genExeInstr(p[2], p[3], p[4], p[5])
      [] p[1] = "genEndInstr"  -> genEndInstr(p[2], p[3], p[4], p[5])

\* C6: decoding the hex string by the inverse field layout gives back the
\* opcode, read and write, the coreId masked to 6 bits and the address masked
\* to 9 bits; two instructions with different masked fields never have the
\* same word.
C6_RoundTrip ==
    Called =>
        LET f == CallFields
            d == Decode(call.result)
        IN  /\ d.opcode = OpcodeOf(call.fn)
            /\ d.coreId = f.coreId % 64
            /\ d.read = f.read
            /\ d.write = f.write
            /\ d.addr = f.addr % 512
            /\ d.high = 0
            /\ \A p \in ProbeCalls :
                   (<<OpcodeOf(p[1]), p[2], p[3], p[4], p[5]>>
                        /= <<OpcodeOf(call.fn), f.coreId % 64, f.read, f.write, f.addr % 512>>)
                   => ProbeResult(p) /= call.result

C6_Witness ==
    /\ call.fn = "genExeInstr"
    /\ call.args = <<33, TRUE, FALSE, 257>>
    /\ Decode(call.result).coreId = 33
    /\ Decode(call.result).addr = 257
    /\ Decode(call.result).read

\* C7: a coreId outside [0, 63] or an address outside [0, 511] never makes
\* genProgInstr, genExeInstr or genEndInstr fail: the word is the one of
\* coreId mod 64 and address mod 512, and the opcode, read and write fields
\* are untouched.
C7_SilentTruncation ==
    (/\ call.fn \in {"genProgInstr", "genExeInstr", "genEndInstr"}
     /\ (call.args[1] \notin 0 .. 63 \/ call.args[4] \notin 0 .. 511)) =>
        LET c == call.args[1]
            r == call.args[2]
            w == call.args[3]
            a == call.args[4]
            d == Decode(call.result)
        IN  /\ IsHexWord(call.result)
            /\ call.result = ProbeResult(<<call.fn, c % 64, r, w, a % 512>>)
            /\ d.opcode = OpcodeOf(call.fn)
            /\ d.read = r
            /\ d.write = w
            /\ d.high = 0

\* coreId -1 and address 513 give the word of coreId 63 and address 1
C7_Witness ==
    /\ call.fn = "genExeInstr"
    /\ call.args = <<-1, FALSE, TRUE, 513>>
    /\ call.result = genExeInstr(63, FALSE, TRUE, 1)

-----------------------------------------------------------------------------
(* Core instruction sequencer *)

\* C8: when a row of A takes one memory row, a core's sequence has
\* 1 + rows*(2 + N*(1 + 3*K + 2)) + 1 non-comment lines; for M=4, N=3, K=2 on
\* 2 cores the partition is core 0 rows 0-1, core 1 rows 2-3, and each core
\* has 60 instructions.
C8_InstructionCount ==
    /\ (CoreGenerated /\ memoryMap.rowsPerMatrixRowA = 1) =>
           LET rows == LastWork.endRow - LastWork.startRow + 1
           IN  Len(CoreWords) = 1 + rows * (2 + dims.N * (1 + 3 * dims.K + 2)) + 1
    /\ (Partitioned /\ dims = Dim(4, 3, 2) /\ numCores = 2) =>
           /\ workAssignments = << [coreId |-> 0, startRow |-> 0, endRow |-> 1],
                                   [coreId |-> 1, startRow |-> 2, endRow |-> 3] >>
           /\ CoreGenerated => Len(CoreWords) = 60

C8_Witness ==
    /\ CoreGenerated
    /\ dims = Dim(4, 3, 2)
    /\ numCores = 2
    /\ workIdx = 3
    /\ LastWork = [coreId |-> 1, startRow |-> 2, endRow |-> 3]
    /\ Len(CoreWords) = 60

\* the structure of a core's sequence, the words carrying the core id `id`
CoreShape(id) ==
    LET ws == CoreWords
        n  == Len(ws)
        d  == [i \in 1 .. n |-> Decode(ws[i])]
    IN  /\ n >= 2
        /\ d[1].opcode = 1 /\ d[1].read /\ ~d[1].write /\ d[1].addr = FUNC_MATMUL
        /\ d[n].opcode = 3 /\ ~d[n].read /\ ~d[n].write /\ d[n].addr = 0
        /\ \A i \in 2 .. (n - 1) : d[i].opcode = 2
        /\ \A i \in 1 .. n : d[i].coreId = id

\* C9 as stated: the first non-comment instruction of a core is a PROG
\* (read=1, write=0, address 1), the last an END (read=0, write=0, address
\* 0), each once, everything between them an EXE, no NOOP, and every word
\* carries the core's id.
C9_ProgExeEnd_Original ==
    CoreGenerated => CoreShape(LastWork.coreId)

\* C9 amended: the same, every word carrying the core's id reduced modulo 64
\* (the id itself for the cores 0 to 63).
C9_ProgExeEnd ==
    CoreGenerated => CoreShape(LastWork.coreId % 64)

\* core 64 of 65 cores: its words carry the id 0
C9_Witness ==
    /\ CoreGenerated
    /\ LastWork.coreId = 64
    /\ Decode(CoreWords[1]).coreId = 0
    /\ Decode(CoreWords[1]).opcode = 1
    /\ Decode(CoreWords[Len(CoreWords)]).opcode = 3

-----------------------------------------------------------------------------
(* C11: the program is the header followed by the cores' sequences in        *)
(* strictly ascending coreId order, and a line once appended stays.          *)
(* Every step keeps the lines already in allInstructions as a prefix; the    *)
(* step that generates a core appends that core's sequence whole at the      *)
(* end, after at most one blank line, and the core it is for has a larger    *)
(* coreId than the core appended before it; nothing but the header comment   *)
(* precedes the first core.                                                  *)

CoreComment(work) ==
    <<"#", " Instructions for Core ">> \o to_string(work.coreId) \o <<" (Rows ">>
        \o to_string(work.startRow) \o <<" to ">> \o to_string(work.endRow)
        \o <<")">>

HeaderOnly ==
    (pc = "cores" /\ workIdx = 1) =>
        /\ allInstructions /= << >>
        /\ \A p \in 1 .. Len(allInstructions) : ~IsInstruction(allInstructions[p])

AppendedInOrder ==
    /\ Len(allInstructions) <= Len(allInstructions')
    /\ SubSeq(allInstructions', 1, Len(allInstructions)) = allInstructions
    /\ (pc = "cores" /\ workIdx' = workIdx + 1) =>
           LET work == workAssignments[workIdx]
               n    == Len(coreInstructions')
               old  == Len(allInstructions)
               new  == Len(allInstructions')
           IN  /\ n > 0
               /\ SubSeq(allInstructions', new - n + 1, new) = coreInstructions'
               /\ coreInstructions'[1] = CoreComment(work)
               /\ new - n - old \in {0, 1}
               /\ \A p \in (old + 1) .. (new - n) : allInstructions'[p] = << >>
               /\ workIdx > 1 => workAssignments[workIdx - 1].coreId < work.coreId

C11_AscendingAppendOnly ==
    [](HeaderOnly) /\ [][AppendedInOrder]_vars

\* two cores generated: the second core's sequence lies after the first's
C11_Witness ==
    /\ pc = "cores"
    /\ workIdx = 3
    /\ Len(workAssignments) = 2
    /\ dims = Dim(2, 2, 2)
    /\ \E p, q \in 1 .. Len(allInstructions) :
           /\ p < q
           /\ allInstructions[p] = CoreComment(workAssignments[1])
           /\ allInstructions[q - 1] = << >>
           /\ allInstructions[q] = CoreComment(workAssignments[2])
           /\ Len(allInstructions) - q + 1 = Len(coreInstructions)

-----------------------------------------------------------------------------
(* C12: whether the compile is aborted for invalid dimensions is decided by  *)
(* the values of M, N and K after the overrides: once the decision is taken  *)
(* the compile is aborted (exit 1, no IR file, no program file) exactly when *)
(* one of the three values, with the overrides applied, is <= 0.             *)

\* main.cpp 131-135: return 1 before anything is generated
InvalidAbort ==
    pc = "exit1" /\ allInstructions = << >>

\* the dimensions with the overrides applied (main.cpp 138-140)
AfterOverrides ==
    [M |-> IF overrideM > 0 THEN overrideM ELSE dims.M,
     N |-> IF overrideN > 0 THEN overrideN ELSE dims.N,
     K |-> IF overrideK > 0 THEN overrideK ELSE dims.K]

C12_AbortDecidedAfterOverrides ==
    pc \notin {"parse", "validate"} =>
        /\ InvalidAbort <=> (AfterOverrides.M <= 0 \/ AfterOverrides.N <= 0
                                 \/ AfterOverrides.K <= 0)
        /\ InvalidAbort => (tacFile = << >> /\ outFile = << >>)

-----------------------------------------------------------------------------
(* C13: a dimension value <= 0 from any source is fatal: when the parser     *)
(* returns one, or -M, -N or -K is given as 0, the compile aborts and does   *)
(* not go on with another value for that dimension.                          *)

\* the compile went past the validation and the overrides
Continued ==
    \/ pc \in {"tac", "distribute", "layout", "header", "cores", "stats", "exit0"}
    \/ pc = "exit1" /\ ~InvalidAbort

C13_NonPositiveIsFatal ==
    /\ pc = "override" => (dims.M > 0 /\ dims.N > 0 /\ dims.K > 0)
    /\ (overrideM = 0 \/ overrideN = 0 \/ overrideK = 0) => ~Continued

-----------------------------------------------------------------------------
(* Reading a line of three-address code *)

Blank ==
    {" ", "    "}

IsDigit(c) ==
    \E n \in 1 .. Len(DecChars) : DecChars[n] = c

DigitValue(c) ==
    (CHOOSE n \in 1 .. Len(DecChars) : DecChars[n] = c) - 1

\* the number of digits a text begins with
RECURSIVE DigitRun(_)
DigitRun(text) ==
    IF text = << >> \/ ~IsDigit(Head(text)) THEN 0 ELSE 1 + DigitRun(Tail(text))

\* the value of a run of digits, read in base ten
RECURSIVE DecValue(_)
DecValue(digits) ==
    IF digits = << >> THEN 0
    ELSE 10 * DecValue(SubSeq(digits, 1, Len(digits) - 1))
             + DigitValue(digits[Len(digits)])

\* the words of a line: blanks dropped, a run of digits read as one number
RECURSIVE Words(_)
Words(line) ==
    IF line = << >> THEN << >>
    ELSE IF Head(line) \in Blank THEN Words(Tail(line))
    ELSE IF IsDigit(Head(line))
         THEN LET n == DigitRun(line)
              IN  << [w |-> "num", n |-> DecValue(SubSeq(line, 1, n))] >>
                      \o Words(SubSeq(line, n + 1, Len(line)))
    ELSE << [w |-> Head(line), n |-> 0] >> \o Words(Tail(line))

WordsOfCode(code) ==
    [l \in 1 .. Len(code) |-> Words(code[l])]

\* the label a line defines, "" when it defines none
LabelOf(words) ==
    IF Len(words) >= 2 /\ words[2].w = ":" THEN words[1].w ELSE ""

\* the lines that define the label
LinesOf(code, label) ==
    {l \in 1 .. Len(code) : LabelOf(code[l]) = label}

TacLabels ==
    {"L1", "L2", "L3", "END_L1", "END_L2", "END_L3"}

\* the literal a labelled test compares with: label : if v >= literal goto L
BoundOf(code, label) ==
    LET words == code[CHOOSE l \in LinesOf(code, label) : TRUE]
    IN  IF Len(words) = 8 /\ words[3].w = "if" /\ words[5].w = ">="
           /\ words[6].w = "num"
        THEN words[6].n ELSE -1

-----------------------------------------------------------------------------
(* C14: the three-address code is one fixed sequence of lines in which only  *)
(* numeric literals vary with the dimensions; the labels it defines are      *)
(* exactly L1, L2, L3, END_L1, END_L2, END_L3, each defined once; every goto *)
(* names one of them; the tests at L1, L2, L3 compare with M, N, K.          *)

\* generateThreeAddressCode has just returned
TacGenerated ==
    pc = "distribute"

C14_FixedShape ==
    TacGenerated =>
        LET code == WordsOfCode(threeAddressCode)
            ref  == WordsOfCode(generateThreeAddressCode(Dim(2, 2, 2)))
        IN  /\ Len(code) = Len(ref)
            /\ \A l \in 1 .. Len(ref) :
                   /\ Len(code[l]) = Len(ref[l])
                   /\ \A p \in 1 .. Len(ref[l]) :
                          \/ code[l][p] = ref[l][p]
                          \/ code[l][p].w = "num" /\ ref[l][p].w = "num"
            /\ \A l \in 1 .. Len(code) : LabelOf(code[l]) \in TacLabels \cup {""}
            /\ \A label \in TacLabels : Cardinality(LinesOf(code, label)) = 1
            /\ \A l \in 1 .. Len(code) : \A p \in 1 .. Len(code[l]) :
                   code[l][p].w = "goto" =>
                       (p < Len(code[l]) /\ code[l][p + 1].w \in TacLabels)
            /\ BoundOf(code, "L1") = dims.M
            /\ BoundOf(code, "L2") = dims.N
            /\ BoundOf(code, "L3") = dims.K

\* the code for M = 4, N = 3, K = 2, whose three tests differ
C14_Witness ==
    /\ pc = "distribute"
    /\ dims = Dim(4, 3, 2)
    /\ LET code == WordsOfCode(threeAddressCode)
       IN  <<BoundOf(code, "L1"), BoundOf(code, "L2"), BoundOf(code, "L3")>>
               = <<4, 3, 2>>

-----------------------------------------------------------------------------
(* The test's instruction simulator (test_compiler.cpp) *)

\* the type the simulator reads off a line: the first character decides
SimulatedType(instr) ==
    LET type_hex == instr[1]
    IN  IF type_hex = "0" THEN "PROG"
        ELSE IF type_hex = "4" \/ type_hex = "5" THEN "EXE"
        ELSE IF type_hex = "8" \/ type_hex = "9" THEN "END"
        ELSE "none"

\* the counts the simulator prints for the lines it was given
simulateInstructions(instructions) ==
    LET counted == {p \in 1 .. Len(instructions) : IsInstruction(instructions[p])}
        Count(type) ==
            Cardinality({p \in counted : SimulatedType(instructions[p]) = type})
    IN  [instr_count |-> Cardinality(counted),
         prog_count  |-> Count("PROG"),
         exe_count   |-> Count("EXE"),
         end_count   |-> Count("END")]

\* the lines the test reads back from the output file: the non-empty ones
ReadBack(file) ==
    SelectSeq(file, LAMBDA line : line /= << >>)

-----------------------------------------------------------------------------
(* C15: the first hex digit of every instruction line tells its type as the  *)
(* test's simulator reads it ('0' PROG, '4' or '5' EXE, '8' or '9' END), so  *)
(* the simulator's PROG, EXE and END counts over the output file are the     *)
(* numbers of PROG, EXE and END instructions emitted.                        *)

\* the number of emitted instructions with the opcode
Emitted(opcode) ==
    Cardinality({p \in 1 .. Len(allInstructions) :
                    /\ IsInstruction(allInstructions[p])
                    /\ Decode(allInstructions[p]).opcode = opcode})

C15_FirstDigitIsType ==
    pc = "exit0" =>
        LET sim == simulateInstructions(ReadBack(outFile))
        IN  /\ sim.prog_count = Emitted(OpcodeOf("genProgInstr"))
            /\ sim.exe_count = Emitted(OpcodeOf("genExeInstr"))
            /\ sim.end_count = Emitted(OpcodeOf("genEndInstr"))

-----------------------------------------------------------------------------
(* The command line (main.cpp 69-110) *)

\* the arguments after argv[0], each the sequence of its characters
ArgHelpShort == <<"-", "h">>
ArgHelpLong  == <<"-", "-", "h", "e", "l", "p">>
ArgOutput    == <<"-", "o">>
ArgM         == <<"-", "M">>
ArgN         == <<"-", "N">>
ArgK         == <<"-", "K">>
ArgCores     == <<"-", "c">>
ArgParser    == <<"-", "p">>

\* a flag the program does not know, two paths, numbers
CliArgs ==
    {ArgHelpShort, ArgHelpLong, ArgOutput, ArgM, ArgN, ArgK, ArgCores, ArgParser,
     <<"-", "x">>, <<"a", ".", "c">>, <<"b", ".", "c">>, <<"3">>, <<"0">>}

MaxArgs == 3

ArgLists ==
    UNION {[1 .. n -> CliArgs] : n \in 0 .. MaxArgs}

\* std::stoi: an optional sign and the digits that follow it; no digit throws
Stoi(text) ==
    LET signed == text /= << >> /\ Head(text) \in {"-", "+"}
        rest   == IF signed THEN Tail(text) ELSE text
        n      == DigitRun(rest)
        value  == DecValue(SubSeq(rest, 1, n))
    IN  [ok    |-> n > 0,
         value |-> IF signed /\ Head(text) = "-" THEN 0 - value ELSE value]

\* the locals of main and its position after one iteration of the loop over
\* argv, for the locals m = [pc, numCores, overrideM, overrideN, overrideK, cli]
ParseArgument(m) ==
    LET c        == m.cli
        arg      == c.argv[c.i]
        hasNext  == c.i + 1 <= Len(c.argv)
        next     == c.argv[c.i + 1]
        n        == Stoi(next)
        skipTwo  == [c EXCEPT !.i = c.i + 2]
        thrown   == [m EXCEPT !.pc = "abort"]
    IN  IF arg = ArgHelpShort \/ arg = ArgHelpLong
        THEN [m EXCEPT !.pc = "exit0", !.cli = [c EXCEPT !.usage = TRUE]]
        ELSE IF arg = ArgOutput /\ hasNext
        THEN [m EXCEPT !.cli = [skipTwo EXCEPT !.outputFile = next]]
        ELSE IF arg = ArgM /\ hasNext
        THEN IF n.ok THEN [m EXCEPT !.overrideM = n.value, !.cli = skipTwo] ELSE thrown
        ELSE IF arg = ArgN /\ hasNext
        THEN IF n.ok THEN [m EXCEPT !.overrideN = n.value, !.cli = skipTwo] ELSE thrown
        ELSE IF arg = ArgK /\ hasNext
        THEN IF n.ok THEN [m EXCEPT !.overrideK = n.value, !.cli = skipTwo] ELSE thrown
        ELSE IF arg = ArgCores /\ hasNext
        THEN IF n.ok THEN [m EXCEPT !.numCores = n.value, !.cli = skipTwo] ELSE thrown
        ELSE IF arg = ArgParser /\ hasNext
        THEN IF n.ok THEN [m EXCEPT !.cli = [skipTwo EXCEPT !.parserType = n.value]]
                     ELSE thrown
        ELSE IF c.inputFile = << >>
        THEN [m EXCEPT !.cli = [c EXCEPT !.inputFile = arg, !.i = c.i + 1]]
        ELSE [m EXCEPT !.pc = "exit1", !.cli = [c EXCEPT !.usage = TRUE]]

generatedVars == <<dims, threeAddressCode, tacFile, workAssignments, memoryMap,
                   allInstructions, workIdx, outFile, dataInstructions,
                   coreInstructions>>

InitCli ==
    /\ pc = "args"
    /\ numCores = DEFAULT_CORES
    /\ overrideM = -1
    /\ overrideN = -1
    /\ overrideK = -1
    /\ dims = NoDims
    /\ threeAddressCode = << >>
    /\ tacFile = << >>
    /\ workAssignments = << >>
    /\ memoryMap = NoMap
    /\ allInstructions = << >>
    /\ workIdx = 0
    /\ outFile = << >>
    /\ dataInstructions = 0
    /\ coreInstructions = << >>
    /\ call = NoCall
    /\ \E argv \in ArgLists : cli = [NoCli EXCEPT !.argv = argv]
    /\ parser = NoParser
    /\ exec = NoExec
    /\ sequences = NoSequences

\* one iteration of the loop over argv
ParseArg ==
    /\ pc = "args"
    /\ cli.i <= Len(cli.argv)
    /\ LET m == ParseArgument([pc |-> pc, numCores |-> numCores,
                               overrideM |-> overrideM, overrideN |-> overrideN,
                               overrideK |-> overrideK, cli |-> cli])
       IN  /\ pc' = m.pc
           /\ numCores' = m.numCores
           /\ overrideM' = m.overrideM
           /\ overrideN' = m.overrideN
           /\ overrideK' = m.overrideK
           /\ cli' = m.cli
    /\ UNCHANGED <<generatedVars, call, parser, exec, sequences>>

\* after the loop: no input file is an error, otherwise the compile starts
EndOfArgs ==
    /\ pc = "args"
    /\ cli.i > Len(cli.argv)
    /\ IF cli.inputFile = << >>
       THEN /\ pc' = "exit1"
            /\ cli' = [cli EXCEPT !.usage = TRUE]
       ELSE /\ pc' = "parse"
            /\ cli' = cli
    /\ UNCHANGED <<numCores, overrideM, overrideN, overrideK, generatedVars, call,
                   parser, exec, sequences>>

NextCli ==
    \/ ParseArg
    \/ EndOfArgs

SpecCli ==
    InitCli /\ [][NextCli]_vars

-----------------------------------------------------------------------------
(* C16: for every argument list, -h or --help prints the usage and exits 0,  *)
(* and a list with no input file or with an unknown flag (any flag other     *)
(* than -o, -M, -N, -K, -c, -p, -h, --help), wherever it stands relative to  *)
(* the input path, exits 1 without compiling.  An argument that follows      *)
(* -o, -M, -N, -K, -c or -p is read as that option's value.                  *)

ValueOptions ==
    {ArgOutput, ArgM, ArgN, ArgK, ArgCores, ArgParser}

\* what the arguments from position i on are, read from left to right
RECURSIVE Roles(_, _)
Roles(argv, i) ==
    IF i > Len(argv) THEN << >>
    ELSE IF argv[i] \in ValueOptions /\ i < Len(argv)
         THEN <<"option", "value">> \o Roles(argv, i + 2)
    ELSE <<(IF argv[i] \in {ArgHelpShort, ArgHelpLong} THEN "help"
            ELSE IF argv[i] \in ValueOptions THEN "option"
            ELSE IF Head(argv[i]) = "-" THEN "unknown"
            ELSE "path")>> \o Roles(argv, i + 1)

Has(role) ==
    \E i \in 1 .. Len(cli.argv) : Roles(cli.argv, 1)[i] = role

C16_HelpAndUsageErrors ==
    pc /= "args" =>
        /\ Has("help") => (pc = "exit0" /\ cli.usage)
        /\ (~Has("help") /\ (~Has("path") \/ Has("unknown"))) => pc = "exit1"

-----------------------------------------------------------------------------
(* The enhanced parser (enhanced_parser.cpp) *)

\* A source file is the sequence of its lines, a line the sequence of its
\* words, digits, punctuation marks and blanks.

\* test_enhanced_parser.cpp, test file 1, with the three literals of its #define lines
ClassicSource(m, n, k) ==
    << <<"#define", " ", "M", " ">> \o to_string(m),
       <<"#define", " ", "N", " ">> \o to_string(n),
       <<"#define", " ", "K", " ">> \o to_string(k),
       << >>,
       <<"void", " ", "matrix_multiply", "(", "int", " ", "A", "[", "]", "[", "K",
             "]", ",", " ", "int", " ", "B", "[", "]", "[", "N", "]", ",", " ",
             "int", " ", "C", "[", "]", "[", "N", "]", ")", " ", "{">>,
       <<"    ", "for", " ", "(", "int", " ", "i", " ", "=", " ", "0", ";", " ", "i",
             " ", "<", " ", "M", ";", " ", "i", "++", ")", " ", "{">>,
       <<"    ", "    ", "for", " ", "(", "int", " ", "j", " ", "=", " ", "0", ";",
             " ", "j", " ", "<", " ", "N", ";", " ", "j", "++", ")", " ", "{">>,
       <<"    ", "    ", "    ", "int", " ", "sum", " ", "=", " ", "0", ";">>,
       <<"    ", "    ", "    ", "for", " ", "(", "int", " ", "k", " ", "=", " ",
             "0", ";", " ", "k", " ", "<", " ", "K", ";", " ", "k", "++", ")", " ",
             "{">>,
       <<"    ", "    ", "    ", "    ", "sum", " ", "+=", " ", "A", "[", "i", "]",
             "[", "k", "]", " ", "*", " ", "B", "[", "k", "]", "[", "j", "]", ";">>,
       <<"    ", "    ", "    ", "}">>,
       <<"    ", "    ", "    ", "C", "[", "i", "]", "[", "j", "]", " ", "=", " ",
             "sum", ";">>,
       <<"    ", "    ", "}">>,
       <<"    ", "}">>,
       <<"}">> >>

\* test file 2
VectorSource ==
    << <<"#include", " ", "<", "vector", ">">>,
       <<"using", " ", "namespace", " ", "std", ";">>,
       << >>,
       <<"void", " ", "matrix_multiply", "(", "vector", "<", "vector", "<", "int",
             ">", ">", "&", " ", "A", ",", " ", "vector", "<", "vector", "<", "int",
             ">", ">", "&", " ", "B", ",", " ", "vector", "<", "vector", "<", "int",
             ">", ">", "&", " ", "C", ")", " ", "{">>,
       <<"    ", "int", " ", "M", " ", "=", " ", "A", ".", "size", "(", ")", ";">>,
       <<"    ", "int", " ", "K", " ", "=", " ", "A", "[", "0", "]", ".", "size",
             "(", ")", ";">>,
       <<"    ", "int", " ", "N", " ", "=", " ", "B", "[", "0", "]", ".", "size",
             "(", ")", ";">>,
       << >>,
       <<"    ", "for", " ", "(", "int", " ", "i", " ", "=", " ", "0", ";", " ", "i",
             " ", "<", " ", "M", ";", " ", "i", "++", ")", " ", "{">>,
       <<"    ", "    ", "for", " ", "(", "int", " ", "j", " ", "=", " ", "0", ";",
             " ", "j", " ", "<", " ", "N", ";", " ", "j", "++", ")", " ", "{">>,
       <<"    ", "    ", "    ", "int", " ", "sum", " ", "=", " ", "0", ";">>,
       <<"    ", "    ", "    ", "for", " ", "(", "int", " ", "k", " ", "=", " ",
             "0", ";", " ", "k", " ", "<", " ", "K", ";", " ", "k", "++", ")", " ",
             "{">>,
       <<"    ", "    ", "    ", "    ", "sum", " ", "+=", " ", "A", "[", "i", "]",
             "[", "k", "]", " ", "*", " ", "B", "[", "k", "]", "[", "j", "]", ";">>,
       <<"    ", "    ", "    ", "}">>,
       <<"    ", "    ", "    ", "C", "[", "i", "]", "[", "j", "]", " ", "=", " ",
             "sum", ";">>,
       <<"    ", "    ", "}">>,
       <<"    ", "}">>,
       <<"}">>,
       << >>,
       <<"int", " ", "main", "(", ")", " ", "{">>,
       <<"    ", "vector", "<", "vector", "<", "int", ">", ">", " ", "A", "(", "1",
             "0", "0", ",", " ", "vector", "<", "int", ">", "(", "5", "0", ")", ")",
             ";">>,
       <<"    ", "vector", "<", "vector", "<", "int", ">", ">", " ", "B", "(", "5",
             "0", ",", " ", "vector", "<", "int", ">", "(", "7", "5", ")", ")", ";">>,
       <<"    ", "vector", "<", "vector", "<", "int", ">", ">", " ", "C", "(", "1",
             "0", "0", ",", " ", "vector", "<", "int", ">", "(", "7", "5", ",", " ",
             "0", ")", ")", ";">>,
       <<"    ", "matrix_multiply", "(", "A", ",", " ", "B", ",", " ", "C", ")", ";">>,
       <<"    ", "return", " ", "0", ";">>,
       <<"}">> >>

\* test file 3, with the three literals of its const lines
FlattenedSource(a, b, c) ==
    << <<"const", " ", "int", " ", "ROWS_A", " ", "=", " ">> \o to_string(a)
           \o <<";">>,
       <<"const", " ", "int", " ", "COLS_B", " ", "=", " ">> \o to_string(b)
           \o <<";">>,
       <<"const", " ", "int", " ", "COLS_A", " ", "=", " ">> \o to_string(c)
           \o <<";", " ", "//", " ", "Same", " ", "as", " ", "ROWS_B">>,
       << >>,
       <<"void", " ", "matrix_multiply", "(", "int", "*", " ", "A", ",", " ", "int",
             "*", " ", "B", ",", " ", "int", "*", " ", "C", ")", " ", "{">>,
       <<"    ", "for", " ", "(", "int", " ", "i", " ", "=", " ", "0", ";", " ", "i",
             " ", "<", " ", "ROWS_A", ";", " ", "i", "++", ")", " ", "{">>,
       <<"    ", "    ", "for", " ", "(", "int", " ", "j", " ", "=", " ", "0", ";",
             " ", "j", " ", "<", " ", "COLS_B", ";", " ", "j", "++", ")", " ", "{">>,
       <<"    ", "    ", "    ", "int", " ", "sum", " ", "=", " ", "0", ";">>,
       <<"    ", "    ", "    ", "for", " ", "(", "int", " ", "k", " ", "=", " ",
             "0", ";", " ", "k", " ", "<", " ", "COLS_A", ";", " ", "k", "++", ")",
             " ", "{">>,
       <<"    ", "    ", "    ", "    ", "sum", " ", "+=", " ", "A", "[", "i", " ",
             "*", " ", "COLS_A", " ", "+", " ", "k", "]", " ", "*", " ", "B", "[",
             "k", " ", "*", " ", "COLS_B", " ", "+", " ", "j", "]", ";">>,
       <<"    ", "    ", "    ", "}">>,
       <<"    ", "    ", "    ", "C", "[", "i", " ", "*", " ", "COLS_B", " ", "+",
             " ", "j", "]", " ", "=", " ", "sum", ";">>,
       <<"    ", "    ", "}">>,
       <<"    ", "}">>,
       <<"}">> >>

\* the value given to a dimension nothing was found for
DEFAULT_DIM == 64

MaxParsed == 2

\* the literals the test files are written with
ParsedValues ==
    (1 .. MaxParsed) \cup {DEFAULT_DIM}

SourceFiles ==
    {[pattern |-> t, a |-> a, b |-> b, c |-> c] :
        t \in {"classic", "flattened"},
        a \in ParsedValues, b \in ParsedValues, c \in ParsedValues}
    \cup {[pattern |-> "vector", a |-> 100, b |-> 100, c |-> 50]}

\* readFileContents
SourceOf(file) ==
    IF file.pattern = "classic" THEN ClassicSource(file.a, file.b, file.c)
    ELSE IF file.pattern = "flattened" THEN FlattenedSource(file.a, file.b, file.c)
    ELSE VectorSource

\* the pieces that are not matched by \w+
NonWords ==
    {"", "(", ")", "{", "}", "[", "]", ";", ",", "=", "<", ">", "+", "*", "++", "+=",
     "&", ".", "//", "#define", "#include"}

EndTok ==
    [w |-> "", n |-> 0]

Tok(ws, p) ==
    IF p \in 1 .. Len(ws) THEN ws[p] ELSE EndTok

IsWordTok(t) ==
    t.w \notin NonWords

NoMatch ==
    [found |-> FALSE, end |-> 0, name |-> "", a |-> 0, b |-> 0, bound |-> EndTok]

\* a match of one of the regular expressions that starts at word p of a line.
\* The blanks the expressions ask for or allow are those of the source files.
\* #define\s+(\w+)\s+(\d+)
MatchDefine(ws, p) ==
    IF Tok(ws, p).w = "#define" /\ IsWordTok(Tok(ws, p + 1))
       /\ Tok(ws, p + 2).w = "num"
    THEN [NoMatch EXCEPT !.found = TRUE, !.end = p + 2,
                         !.name = Tok(ws, p + 1).w, !.a = Tok(ws, p + 2).n]
    ELSE NoMatch

\* const\s+\w+\s+(\w+)\s*=\s*(\d+)
MatchConst(ws, p) ==
    IF Tok(ws, p).w = "const" /\ IsWordTok(Tok(ws, p + 1))
       /\ IsWordTok(Tok(ws, p + 2)) /\ Tok(ws, p + 3).w = "="
       /\ Tok(ws, p + 4).w = "num"
    THEN [NoMatch EXCEPT !.found = TRUE, !.end = p + 4,
                         !.name = Tok(ws, p + 2).w, !.a = Tok(ws, p + 4).n]
    ELSE NoMatch

\* (\w+)\s*\[\s*(\d+)\s*\]\s*\[\s*(\d+)\s*\]
MatchArray(ws, p) ==
    IF IsWordTok(Tok(ws, p)) /\ Tok(ws, p + 1).w = "[" /\ Tok(ws, p + 2).w = "num"
       /\ Tok(ws, p + 3).w = "]" /\ Tok(ws, p + 4).w = "["
       /\ Tok(ws, p + 5).w = "num" /\ Tok(ws, p + 6).w = "]"
    THEN [NoMatch EXCEPT !.found = TRUE, !.end = p + 6, !.name = Tok(ws, p).w,
                         !.a = Tok(ws, p + 2).n, !.b = Tok(ws, p + 5).n]
    ELSE NoMatch

\* vector\s*<.*>\s+(\w+)\s*\(\s*(\d+)\s*,   (.* is greedy: the last > that fits)
MatchVector(ws, p) ==
    LET fits == {q \in (p + 2) .. Len(ws) :
                    /\ ws[q].w = ">"
                    /\ IsWordTok(Tok(ws, q + 1))
                    /\ Tok(ws, q + 2).w = "("
                    /\ Tok(ws, q + 3).w = "num"
                    /\ Tok(ws, q + 4).w = ","}
        q    == CHOOSE x \in fits : \A y \in fits : y <= x
    IN  IF Tok(ws, p).w = "vector" /\ Tok(ws, p + 1).w = "<" /\ fits /= {}
        THEN [NoMatch EXCEPT !.found = TRUE, !.end = q + 4,
                             !.name = Tok(ws, q + 1).w, !.a = Tok(ws, q + 3).n]
        ELSE NoMatch

\* for\s*\(.*?(\w+)\s*=\s*0\s*;\s*\1\s*<\s*(\d+|\w+)\s*;   (.*? is lazy: the
\* first variable that fits)
MatchLoop(ws, p) ==
    LET fits == {q \in (p + 2) .. Len(ws) :
                    /\ IsWordTok(ws[q])
                    /\ Tok(ws, q + 1).w = "="
                    /\ Tok(ws, q + 2) = [w |-> "num", n |-> 0]
                    /\ Tok(ws, q + 3).w = ";"
                    /\ Tok(ws, q + 4) = ws[q]
                    /\ Tok(ws, q + 5).w = "<"
                    /\ IsWordTok(Tok(ws, q + 6))
                    /\ Tok(ws, q + 7).w = ";"}
        q    == CHOOSE x \in fits : \A y \in fits : x <= y
    IN  IF Tok(ws, p).w = "for" /\ Tok(ws, p + 1).w = "(" /\ fits /= {}
        THEN [NoMatch EXCEPT !.found = TRUE, !.end = q + 7,
                             !.name = ws[q].w, !.bound = Tok(ws, q + 6)]
        ELSE NoMatch

MatchAt(pattern, ws, p) ==
    CASE pattern = "define" -> MatchDefine(ws, p)
      [] pattern = "const"  -> MatchConst(ws, p)
      [] pattern = "array"  -> MatchArray(ws, p)
      [] pattern = "vector" -> MatchVector(ws, p)
      [] pattern = "loop"   -> MatchLoop(ws, p)

\* the while loop over std::regex_search within one line: each search starts
\* where the match before it ended
RECURSIVE ScanLine(_, _, _)
ScanLine(pattern, ws, p) ==
    IF p > Len(ws) THEN << >>
    ELSE LET m == MatchAt(pattern, ws, p)
         IN  IF m.found THEN <<m>> \o ScanLine(pattern, ws, m.end + 1)
             ELSE ScanLine(pattern, ws, p + 1)

\* all the matches of a pattern in the code, in order
Matches(pattern, code) ==
    ConcatRange([l \in 1 .. Len(code) |-> ScanLine(pattern, Words(code[l]), 1)],
                1, Len(code))

\* the loop over the #define or const matches: the names that set M, N and K
RECURSIVE AssignNamed(_, _, _, _, _)
AssignNamed(d, ms, forM, forN, forK) ==
    IF ms = << >> THEN d
    ELSE LET m == Head(ms)
             d1 == IF m.name \in forM THEN [d EXCEPT !.M = m.a]
                   ELSE IF m.name \in forN THEN [d EXCEPT !.N = m.a]
                   ELSE IF m.name \in forK THEN [d EXCEPT !.K = m.a]
                   ELSE d
         IN  AssignNamed(d1, Tail(ms), forM, forN, forK)

Incomplete(d) ==
    d.M = -1 \/ d.N = -1 \/ d.K = -1

\* arr.first + "Vec" == name || arr.first + "_vec" == name, for the array
\* names of the source files
IsVectorOf(name, arr) ==
    <<arr, name>> \in {<<"A", "AVec">>, <<"A", "A_vec">>, <<"B", "BVec">>,
                       <<"B", "B_vec">>, <<"C", "CVec">>, <<"C", "C_vec">>}

\* the for loop over the arrays found, for one vector declaration
RECURSIVE AssignFromArrays(_, _, _)
AssignFromArrays(d, vec, arrays) ==
    IF arrays = << >> THEN d
    ELSE LET arr == Head(arrays)
             d1  == IF ~IsVectorOf(vec.name, arr.name) THEN d
                    ELSE IF vec.a = arr.a THEN [d EXCEPT !.M = vec.a]
                    ELSE IF vec.a = arr.b THEN [d EXCEPT !.N = vec.a]
                    ELSE d
         IN  AssignFromArrays(d1, vec, Tail(arrays))

\* the while loop over the vector declarations
RECURSIVE AssignVectors(_, _, _)
AssignVectors(d, vecs, arrays) ==
    IF vecs = << >> THEN d
    ELSE LET vec   == Head(vecs)
             found == \E n \in 1 .. Len(arrays) : IsVectorOf(vec.name, arrays[n].name)
             d1    == AssignFromArrays(d, vec, arrays)
             d2    == IF found THEN d1
                      ELSE IF vec.name \in {"A", "matA", "a"} THEN [d1 EXCEPT !.M = vec.a]
                      ELSE IF vec.name \in {"B", "matB", "b"} THEN [d1 EXCEPT !.K = vec.a]
                      ELSE IF vec.name \in {"C", "matC", "c"} THEN [d1 EXCEPT !.N = vec.a]
                      ELSE d1
         IN  AssignVectors(d2, Tail(vecs), arrays)

\* the bound of a loop as a number: std::stoi of it, or, when that throws,
\* the dimension found so far for the name; -1 otherwise
BoundVal(d, bound) ==
    IF bound.w = "num" THEN bound.n
    ELSE IF bound.w \in {"M", "ROWS_A", "ROWS"} THEN d.M
    ELSE IF bound.w \in {"N", "COLS_B", "COLS"} THEN d.N
    ELSE IF bound.w \in {"K", "COLS_A", "ROWS_B"} THEN d.K
    ELSE -1

\* the for loop over the loops found
RECURSIVE AssignLoops(_, _)
AssignLoops(d, loops) ==
    IF loops = << >> THEN d
    ELSE LET loop     == Head(loops)
             boundVal == BoundVal(d, loop.bound)
             d1       == IF boundVal = -1 THEN d
                         ELSE IF loop.name = "i" THEN [d EXCEPT !.M = boundVal]
                         ELSE IF loop.name = "j" THEN [d EXCEPT !.N = boundVal]
                         ELSE IF loop.name = "k" THEN [d EXCEPT !.K = boundVal]
                         ELSE d
         IN  AssignLoops(d1, Tail(loops))

\* findMatrixDimensions starts on a file that was read
InitParse ==
    /\ pc = "parse"
    /\ numCores = DEFAULT_CORES
    /\ overrideM = -1
    /\ overrideN = -1
    /\ overrideK = -1
    /\ dims = NoDims
    /\ threeAddressCode = << >>
    /\ tacFile = << >>
    /\ workAssignments = << >>
    /\ memoryMap = NoMap
    /\ allInstructions = << >>
    /\ workIdx = 0
    /\ outFile = << >>
    /\ dataInstructions = 0
    /\ coreInstructions = << >>
    /\ call = NoCall
    /\ cli = NoCli
    /\ \E file \in SourceFiles :
           parser = [stage |-> "define", file |-> file, dims |-> Dim(-1, -1, -1)]
    /\ exec = NoExec
    /\ sequences = NoSequences

parserFrame == <<pc, numCores, overrideM, overrideN, overrideK, dims,
                 threeAddressCode, tacFile, workAssignments, memoryMap,
                 allInstructions, workIdx, outFile, dataInstructions,
                 coreInstructions, call, cli, exec, sequences>>

\* the #define statements
ScanDefines ==
    /\ parser.stage = "define"
    /\ parser' = [parser EXCEPT
           !.stage = "const",
           !.dims = AssignNamed(parser.dims, Matches("define", SourceOf(parser.file)),
                                {"M", "ROWS_A", "ROWS"}, {"N", "COLS_B", "COLS"},
                                {"K", "COLS_A", "ROWS_B"})]
    /\ UNCHANGED parserFrame

\* the constant declarations
ScanConsts ==
    /\ parser.stage = "const"
    /\ parser' = [parser EXCEPT
           !.stage = "arrays",
           !.dims = AssignNamed(parser.dims, Matches("const", SourceOf(parser.file)),
                                {"M", "rowsA", "rows"}, {"N", "colsB", "cols"},
                                {"K", "colsA", "rowsB"})]
    /\ UNCHANGED parserFrame

\* the array and vector declarations, looked at when a dimension is missing
ScanArrays ==
    /\ parser.stage = "arrays"
    /\ parser' = [parser EXCEPT
           !.stage = "loops",
           !.dims = IF Incomplete(parser.dims)
                    THEN AssignVectors(parser.dims,
                                       Matches("vector", SourceOf(parser.file)),
                                       Matches("array", SourceOf(parser.file)))
                    ELSE parser.dims]
    /\ UNCHANGED parserFrame

\* the loop bounds, looked at when a dimension is missing
InferFromLoops ==
    /\ parser.stage = "loops"
    /\ LET loops == Matches("loop", SourceOf(parser.file))
       IN  parser' = [parser EXCEPT
               !.stage = "defaults",
               !.dims = IF Incomplete(parser.dims) /\ Len(loops) >= 3
                        THEN AssignLoops(parser.dims, loops)
                        ELSE parser.dims]
    /\ UNCHANGED parserFrame

\* the last resort
ApplyDefaults ==
    /\ parser.stage = "defaults"
    /\ parser' = [parser EXCEPT
           !.stage = "found",
           !.dims = [M |-> IF parser.dims.M = -1 THEN DEFAULT_DIM ELSE parser.dims.M,
                     N |-> IF parser.dims.N = -1 THEN DEFAULT_DIM ELSE parser.dims.N,
                     K |-> IF parser.dims.K = -1 THEN DEFAULT_DIM ELSE parser.dims.K]]
    /\ UNCHANGED parserFrame

\* parseMatrixMultiplyEnhanced returns the dimensions to main
ReturnDims ==
    /\ pc = "parse"
    /\ parser.stage = "found"
    /\ dims' = parser.dims
    /\ pc' = "validate"
    /\ parser' = [parser EXCEPT !.stage = "done"]
    /\ UNCHANGED <<numCores, overrideM, overrideN, overrideK, threeAddressCode,
                   tacFile, workAssignments, memoryMap, allInstructions, workIdx,
                   outFile, dataInstructions, coreInstructions, call, cli, exec, sequences>>

NextParse ==
    \/ ScanDefines
    \/ ScanConsts
    \/ ScanArrays
    \/ InferFromLoops
    \/ ApplyDefaults
    \/ ReturnDims

SpecParse ==
    InitParse /\ [][NextParse]_vars

-----------------------------------------------------------------------------
(* C17: for a flattened-array source that declares const int ROWS_A = a,     *)
(* COLS_B = b, COLS_A = c and bounds its loops by these names, the enhanced  *)
(* parser returns M = a, N = b, K = c for all positive a, b, c; for a source *)
(* with #define M, N, K it returns the defined values.                       *)

C17_NamedConstantsParsed ==
    (parser.stage = "done" /\ parser.file.pattern \in {"flattened", "classic"}) =>
        dims = Dim(parser.file.a, parser.file.b, parser.file.c)

-----------------------------------------------------------------------------
(* The three-address code run as a program: a label is a jump target,        *)
(* "if x >= n goto L" a conditional jump, A, B and C flat arrays of M*K,     *)
(* K*N and M*N elements.                                                     *)

MaxTac == 2

\* the dimensions of the runs
TacDims ==
    {Dim(m, n, k) : m \in 1 .. MaxTac, n \in 1 .. MaxTac, k \in 1 .. MaxTac}

TacVars ==
    {"i", "j", "k", "sum", "t1", "t2", "t3", "t4", "t5", "t6", "t7", "t8", "t9"}

\* the test matrices of test_compiler.cpp, flat: A[i][k] = i + k + 1 and
\* B[k][j] = k - j + 2
TestA(d) ==
    [x \in 0 .. (d.M * d.K - 1) |-> (x \div d.K) + (x % d.K) + 1]

TestB(d) ==
    [y \in 0 .. (d.K * d.N - 1) |-> (y \div d.N) - (y % d.N) + 2]

\* the store before the first line is run
LoadedStore(d) ==
    [ip     |-> 1,
     last   |-> 0,
     steps  |-> 0,
     env    |-> [v \in TacVars |-> 0],
     mem    |-> [A |-> TestA(d), B |-> TestB(d),
                 C |-> [z \in 0 .. (d.M * d.N - 1) |-> 0]],
     writes |-> [A |-> [x \in 0 .. (d.M * d.K - 1) |-> 0],
                 B |-> [y \in 0 .. (d.K * d.N - 1) |-> 0],
                 C |-> [z \in 0 .. (d.M * d.N - 1) |-> 0]],
     fault  |-> FALSE]

\* main has validated the dimensions and is about to generate the code
InitTac ==
    /\ pc = "tac"
    /\ numCores = DEFAULT_CORES
    /\ overrideM = -1
    /\ overrideN = -1
    /\ overrideK = -1
    /\ dims \in TacDims
    /\ threeAddressCode = << >>
    /\ tacFile = << >>
    /\ workAssignments = << >>
    /\ memoryMap = NoMap
    /\ allInstructions = << >>
    /\ workIdx = 0
    /\ outFile = << >>
    /\ dataInstructions = 0
    /\ coreInstructions = << >>
    /\ call = NoCall
    /\ cli = NoCli
    /\ parser = NoParser
    /\ exec = LoadedStore(dims)
    /\ sequences = NoSequences

\* the line to run, without the label it may begin with
Statement ==
    LET ws == Words(threeAddressCode[exec.ip])
    IN  IF LabelOf(ws) /= "" THEN SubSeq(ws, 3, Len(ws)) ELSE ws

StatementKind ==
    LET st == Statement
    IN  IF st = << >> THEN "label"
        ELSE IF st[1].w = "goto" THEN "goto"
        ELSE IF st[1].w = "if" THEN "branch"
        ELSE IF Len(st) = 3 /\ st[2].w = "=" THEN "copy"
        ELSE IF Len(st) = 5 /\ st[2].w = "=" /\ st[4].w \in {"+", "*"} THEN "arith"
        ELSE IF Len(st) = 6 /\ st[2].w = "=" /\ st[4].w = "[" THEN "load"
        ELSE IF Len(st) = 6 /\ st[2].w = "[" /\ st[5].w = "=" THEN "store"
        ELSE "none"

Running(kind) ==
    /\ pc = "distribute"
    /\ exec.ip \in 1 .. Len(threeAddressCode)
    /\ ~exec.fault
    /\ StatementKind = kind

\* the value of an operand: a literal or a variable
ValueOf(t) ==
    IF t.w = "num" THEN t.n ELSE exec.env[t.w]

\* the line that defines the label
TargetOf(label) ==
    CHOOSE l \in 1 .. Len(threeAddressCode) :
        LabelOf(Words(threeAddressCode[l])) = label

\* the store e after the line at exec.ip, with line l to run next
Jump(e, l) ==
    [e EXCEPT !.last = exec.ip, !.ip = l, !.steps = exec.steps + 1]

Advance(e) ==
    Jump(e, exec.ip + 1)

execFrame == <<pc, numCores, overrideM, overrideN, overrideK, dims,
               threeAddressCode, tacFile, workAssignments, memoryMap,
               allInstructions, workIdx, outFile, dataInstructions,
               coreInstructions, call, cli, parser, sequences>>

\* L:
ExecLabel ==
    /\ Running("label")
    /\ exec' = Advance(exec)
    /\ UNCHANGED execFrame

\* goto L
ExecGoto ==
    /\ Running("goto")
    /\ exec' = Jump(exec, TargetOf(Statement[2].w))
    /\ UNCHANGED execFrame

\* if x >= n goto L
ExecBranch ==
    /\ Running("branch")
    /\ LET st == Statement
       IN  exec' = IF ValueOf(st[2]) >= ValueOf(st[4])
                   THEN Jump(exec, TargetOf(st[6].w))
                   ELSE Advance(exec)
    /\ UNCHANGED execFrame

\* x = y
ExecCopy ==
    /\ Running("copy")
    /\ LET st == Statement
       IN  exec' = Advance([exec EXCEPT !.env[st[1].w] = ValueOf(st[3])])
    /\ UNCHANGED execFrame

\* x = y + z, x = y * z
ExecArith ==
    /\ Running("arith")
    /\ LET st == Statement
           v  == IF st[4].w = "+" THEN ValueOf(st[3]) + ValueOf(st[5])
                 ELSE ValueOf(st[3]) * ValueOf(st[5])
       IN  exec' = Advance([exec EXCEPT !.env[st[1].w] = v])
    /\ UNCHANGED execFrame

\* x = R[y]: an index outside the array is a fault
ExecLoad ==
    /\ Running("load")
    /\ LET st  == Statement
           arr == st[3].w
           idx == ValueOf(st[5])
       IN  exec' = IF idx \in DOMAIN exec.mem[arr]
                   THEN Advance([exec EXCEPT !.env[st[1].w] = exec.mem[arr][idx]])
                   ELSE [exec EXCEPT !.fault = TRUE]
    /\ UNCHANGED execFrame

\* R[y] = x: an index outside the array is a fault
ExecStore ==
    /\ Running("store")
    /\ LET st  == Statement
           arr == st[1].w
           idx == ValueOf(st[3])
       IN  exec' = IF idx \in DOMAIN exec.mem[arr]
                   THEN Advance([exec EXCEPT
                                    !.mem[arr][idx] = ValueOf(st[6]),
                                    !.writes[arr][idx] = exec.writes[arr][idx] + 1])
                   ELSE [exec EXCEPT !.fault = TRUE]
    /\ UNCHANGED execFrame

NextTac ==
    \/ GenerateTac
    \/ ExecLabel
    \/ ExecGoto
    \/ ExecBranch
    \/ ExecCopy
    \/ ExecArith
    \/ ExecLoad
    \/ ExecStore

\* the run goes on while a line is left to run
SpecTac ==
    InitTac /\ [][NextTac]_vars /\ WF_vars(NextTac)

-----------------------------------------------------------------------------
(* C18: run as a program, the three-address code for positive M, N, K        *)
(* terminates by reaching END_L1, leaves C[i*N+j] equal to the sum over k of *)
(* A[i*K+k] * B[k*N+j] for every i and j, writes every element of C exactly  *)
(* once, and never reads or writes an index outside an array.  Termination   *)
(* is stated on finite runs: while the run has not gone past END_L1 its next *)
(* line can be run, and no run is longer than 3 + M*(6 + N*(10 + 11*K))      *)
(* lines, the length of the run that ends.                                   *)

\* the run has gone past the last line
Halted ==
    pc = "distribute" /\ exec.ip = Len(threeAddressCode) + 1

\* the sum over k' in 0 .. k of A[i*K+k'] * B[k'*N+j]
RECURSIVE DotProduct(_, _, _)
DotProduct(i, j, k) ==
    IF k < 0 THEN 0
    ELSE DotProduct(i, j, k - 1)
             + exec.mem.A[i * dims.K + k] * exec.mem.B[k * dims.N + j]

ProductStored ==
    \A i \in 0 .. (dims.M - 1), j \in 0 .. (dims.N - 1) :
        /\ exec.mem.C[i * dims.N + j] = DotProduct(i, j, dims.K - 1)
        /\ exec.writes.C[i * dims.N + j] = 1

EndedAtEndL1 ==
    /\ exec.last \in 1 .. Len(threeAddressCode)
    /\ LabelOf(Words(threeAddressCode[exec.last])) = "END_L1"

NoFault ==
    /\ ~exec.fault
    /\ \A z \in DOMAIN exec.writes.C : exec.writes.C[z] <= 1

\* the number of lines a run executes
RunLength ==
    3 + dims.M * (6 + dims.N * (10 + 11 * dims.K))

\* a line is left to run and it is a statement, or the run has ended
Progresses ==
    pc = "distribute" =>
        \/ Halted /\ exec.steps = RunLength
        \/ /\ exec.ip \in 1 .. Len(threeAddressCode)
           /\ StatementKind /= "none"
           /\ exec.steps < RunLength

C18_TerminatesWithProduct ==
    /\ Progresses
    /\ NoFault
    /\ Halted => (EndedAtEndL1 /\ ProductStored)

\* the run for M = N = K = 2 has ended: C[1][1] = 2 * 1 + 3 * 2
C18_Witness ==
    /\ Halted
    /\ dims = Dim(2, 2, 2)
    /\ exec.mem.C[3] = 8
    /\ exec.writes.C = [z \in 0 .. 3 |-> 1]

-----------------------------------------------------------------------------
(* C19: in a core's sequence, for every assigned row i and every column j,   *)
(* in ascending order, the block of C[i][j] is exactly: a clear EXE (no      *)
(* read, no write, address 0); for k = 0 .. K-1 in order the three EXEs      *)
(* read at baseAddrB + (k*rowSizeB + j) / 512, offset (k*rowSizeB + j) %     *)
(* 512, MAC (address 2); then the EXE that writes at baseAddrC +             *)
(* (i*rowSizeC + j) / 512 and the EXE with offset (i*rowSizeC + j) % 512.    *)
(* An instruction is read back from its word, which carries the core id in   *)
(* 6 bits and the address in 9.                                              *)

ColumnComment(i, j) ==
    <<"#", " Computing element C[">> \o to_string(i) \o <<"][">> \o to_string(j)
        \o <<"]">>

\* the lines of the last generated sequence that open the block of an element
ColumnStarts ==
    SelectSeq([p \in 1 .. Len(coreInstructions) |-> p],
              LAMBDA p : /\ Len(coreInstructions[p]) >= 2
                         /\ coreInstructions[p][1] = "#"
                         /\ coreInstructions[p][2] = " Computing element C[")

\* an EXE of the last generated core as its word shows it
ExeWord(read, write, addr) ==
    [opcode |-> 2,
     coreId |-> LastWork.coreId % (CORE_MASK + 1),
     read   |-> read,
     write  |-> write,
     addr   |-> addr % (ADDR_MASK + 1),
     high   |-> 0]

\* instruction m of the block of C[i][j], m in 1 .. 3K + 3
BlockWord(i, j, m) ==
    LET k      == (m - 2) \div 3
        bIndex == k * memoryMap.rowSizeB + j
        cIndex == i * memoryMap.rowSizeC + j
    IN  IF m = 1 THEN ExeWord(FALSE, FALSE, 0)
        ELSE IF m = 3 * dims.K + 2
        THEN ExeWord(FALSE, TRUE, memoryMap.baseAddrC + (cIndex \div 512))
        ELSE IF m = 3 * dims.K + 3 THEN ExeWord(FALSE, FALSE, cIndex % 512)
        ELSE IF (m - 2) % 3 = 0
        THEN ExeWord(TRUE, FALSE, memoryMap.baseAddrB + (bIndex \div 512))
        ELSE IF (m - 2) % 3 = 1 THEN ExeWord(FALSE, FALSE, bIndex % 512)
        ELSE ExeWord(FALSE, FALSE, 2)

C19_ColumnBlocks ==
    CoreGenerated =>
        LET starts == ColumnStarts
            size   == 3 * dims.K + 3
        IN  /\ Len(starts) = (LastWork.endRow - LastWork.startRow + 1) * dims.N
            /\ \A n \in 1 .. Len(starts) :
                   LET i == LastWork.startRow + ((n - 1) \div dims.N)
                       j == (n - 1) % dims.N
                       p == starts[n]
                   IN  /\ coreInstructions[p] = ColumnComment(i, j)
                       /\ p + size + 1 <= Len(coreInstructions)
                       /\ \A m \in 1 .. size :
                              /\ IsInstruction(coreInstructions[p + m])
                              /\ Decode(coreInstructions[p + m]) = BlockWord(i, j, m)
                       /\ \/ ~IsInstruction(coreInstructions[p + size + 1])
                          \/ Decode(coreInstructions[p + size + 1]).opcode = 3

\* M = 1, N = 257, K = 2: B[1][256] is element 513 of B, in its second
\* memory row at offset 1; the block of C[0][256] reads it
C19_Witness ==
    /\ CoreGenerated
    /\ dims = Dim(1, 257, 2)
    /\ Len(ColumnStarts) = 257
    /\ LET p == ColumnStarts[257]
       IN  /\ coreInstructions[p] = ColumnComment(0, 256)
           /\ Decode(coreInstructions[p + 5]).read
           /\ Decode(coreInstructions[p + 5]).addr = memoryMap.baseAddrB + 1
           /\ Decode(coreInstructions[p + 6]).addr = 1

-----------------------------------------------------------------------------
(* C20: when a row of A takes more than one memory row (rowsPerMatrixRowA    *)
(* > 1), the sequence has, for every assigned row i and before the column    *)
(* loop of row i, one load EXE per segment, for the segments 0 to            *)
(* rowsPerMatrixRowA - 1 in ascending order, each with read = 1 and address  *)
(* baseAddrA + i * rowsPerMatrixRowA + segment.                              *)

RowComment(i) ==
    <<"#", " Processing row ">> \o to_string(i)

\* the lines of the last generated sequence that open a row
RowStarts ==
    SelectSeq([p \in 1 .. Len(coreInstructions) |-> p],
              LAMBDA p : /\ Len(coreInstructions[p]) >= 2
                         /\ coreInstructions[p][1] = "#"
                         /\ coreInstructions[p][2] = " Processing row ")

C20_SegmentLoads ==
    (CoreGenerated /\ memoryMap.rowsPerMatrixRowA > 1) =>
        LET starts   == RowStarts
            segments == memoryMap.rowsPerMatrixRowA
        IN  /\ Len(starts) = LastWork.endRow - LastWork.startRow + 1
            /\ \A n \in 1 .. Len(starts) :
                   LET i == LastWork.startRow + n - 1
                       p == starts[n]
                   IN  /\ coreInstructions[p] = RowComment(i)
                       /\ p + 2 * segments + 1 <= Len(coreInstructions)
                       /\ \A segment \in 0 .. (segments - 1) :
                              /\ Decode(coreInstructions[p + 2 * segment + 1])
                                     = ExeWord(TRUE, FALSE,
                                               memoryMap.baseAddrA + i * segments
                                                   + segment)
                              /\ ~Decode(coreInstructions[p + 2 * segment + 2]).read
                       /\ coreInstructions[p + 2 * segments + 1] = ColumnComment(i, 0)

\* M = 2, K = 513 on two cores: row 1 of A is the memory rows 2 and 3
C20_Witness ==
    /\ CoreGenerated
    /\ dims = Dim(2, 1, 513)
    /\ memoryMap.rowsPerMatrixRowA = 2
    /\ LastWork.startRow = 1
    /\ Len(RowStarts) = 1
    /\ LET p == RowStarts[1]
       IN  /\ Decode(coreInstructions[p + 1]).read
           /\ Decode(coreInstructions[p + 1]).addr = 2
           /\ Decode(coreInstructions[p + 3]).read
           /\ Decode(coreInstructions[p + 3]).addr = 3

-----------------------------------------------------------------------------
(* The cores generated apart: the calls of generateCoreInstructions of the   *)
(* loop of main are made in any order, each adding its result to the list    *)
(* of finished sequences, and the driver then appends the finished           *)
(* sequences to the program as its loop does.                                *)

\* the dimensions the cores are generated apart for: the positive small
\* ones, with dot products of more than one step for up to two rows
ApartDims ==
    {d \in SmallDims : d.M > 0 /\ d.N > 0 /\ d.K > 0 /\ (d.K = 1 \/ d.M <= 2)}

\* the header lines of the program
HeaderLines(d, w) ==
    << <<"#", " PIM Instructions for Matrix Multiplication">>,
       <<"#", " Matrix dimensions: ">> \o to_string(d.M) \o <<"x">>
           \o to_string(d.K) \o <<" * ">> \o to_string(d.K) \o <<"x">>
           \o to_string(d.N),
       <<"#", " Using ">> \o to_string(Len(w)) \o <<" cores">>,
       << >> >>

\* one iteration of the driver's loop on the program so far: a blank line
\* unless the program ends with one, then the core's sequence
AppendSequence(all, ci) ==
    LET sep == IF all /= << >> /\ all[Len(all)] /= << >>
               THEN << << >> >> ELSE << >>
    IN  all \o sep \o ci

\* the program of the driver's loop over the assignments n .. Len(w)
RECURSIVE DriverLoop(_, _, _, _, _)
DriverLoop(all, w, n, d, memMap) ==
    IF n > Len(w) THEN all
    ELSE DriverLoop(AppendSequence(all,
                        generateCoreInstructions(w[n].coreId, w[n].startRow,
                                                 w[n].endRow, d, memMap)),
                    w, n + 1, d, memMap)

\* the state of main before the header is written
InitApart ==
    /\ pc = "header"
    /\ numCores \in 1 .. MaxCores
    /\ overrideM = -1
    /\ overrideN = -1
    /\ overrideK = -1
    /\ dims \in ApartDims
    /\ threeAddressCode = generateThreeAddressCode(dims)
    /\ tacFile = writeThreeAddressCodeToFile(threeAddressCode)
    /\ workAssignments = distributeWork(dims, numCores)
    /\ memoryMap = optimizeMemoryLayout(dims)
    /\ allInstructions = << >>
    /\ workIdx = 0
    /\ outFile = << >>
    /\ dataInstructions = 0
    /\ coreInstructions = << >>
    /\ call = NoCall
    /\ cli = NoCli
    /\ parser = NoParser
    /\ exec = NoExec
    /\ sequences = NoSequences

\* the assignments whose sequence is finished
Finished ==
    {sequences[n].coreId : n \in 1 .. Len(sequences)}

apartFrame == <<pc, numCores, overrideM, overrideN, overrideK, dims,
                threeAddressCode, tacFile, workAssignments, memoryMap, outFile,
                dataInstructions, call, cli, parser, exec>>

\* generateCoreInstructions for any assignment that has no sequence yet
GenerateApart ==
    /\ pc = "cores"
    /\ \E n \in 1 .. Len(workAssignments) :
           LET work == workAssignments[n]
           IN  /\ work.coreId \notin Finished
               /\ sequences' =
                      Append(sequences,
                             [coreId       |-> work.coreId,
                              instructions |->
                                  generateCoreInstructions(work.coreId, work.startRow,
                                                           work.endRow, dims,
                                                           memoryMap)])
    /\ UNCHANGED <<apartFrame, allInstructions, workIdx, coreInstructions>>

\* mutant: the sequences are taken in the order they were finished in
NextSequence_AsFinished(seqs, n) ==
    seqs[n]

\* the finished sequence with the n-th smallest coreId
NextSequence(seqs, n) ==
    CHOOSE e \in {seqs[m] : m \in 1 .. Len(seqs)} :
        Cardinality({m \in 1 .. Len(seqs) : seqs[m].coreId < e.coreId}) = n - 1

\* once every sequence is finished: the driver's append for the next core
AppendApart ==
    /\ pc = "cores"
    /\ Len(sequences) = Len(workAssignments)
    /\ workIdx <= Len(workAssignments)
    /\ LET ci == NextSequence(sequences, workIdx).instructions
       IN  /\ coreInstructions' = ci
           /\ allInstructions' = AppendSequence(allInstructions, ci)
    /\ workIdx' = workIdx + 1
    /\ UNCHANGED <<apartFrame, sequences>>

NextApart ==
    \/ EmitHeader
    \/ GenerateApart
    \/ AppendApart

SpecApart ==
    InitApart /\ [][NextApart]_vars

-----------------------------------------------------------------------------
(* C21: the sequences of the cores are independent.  A step that generates   *)
(* the sequence of one assignment adds that sequence and leaves the          *)
(* Dimensions, the MemoryMap, the assignments, the program and every         *)
(* sequence already finished as they were, and the sequence it adds is the   *)
(* one the sequential driver generates for that assignment; so when the      *)
(* sequences have been generated in any order and then appended in           *)
(* ascending coreId order, the program is the program of the sequential      *)
(* driver.                                                                   *)

\* every sequence has been generated and appended
Assembled ==
    /\ pc = "cores"
    /\ Len(sequences) = Len(workAssignments)
    /\ workIdx > Len(workAssignments)

SameAsSequential ==
    Assembled =>
        allInstructions = DriverLoop(HeaderLines(dims, workAssignments),
                                     workAssignments, 1, dims, memoryMap)

GeneratedAlone ==
    (sequences' /= sequences) =>
        /\ dims' = dims
        /\ memoryMap' = memoryMap
        /\ workAssignments' = workAssignments
        /\ allInstructions' = allInstructions
        /\ Len(sequences') = Len(sequences) + 1
        /\ SubSeq(sequences', 1, Len(sequences)) = sequences
        /\ \E n \in 1 .. Len(workAssignments) :
               LET work == workAssignments[n]
                   new  == sequences'[Len(sequences')]
               IN  /\ new.coreId = work.coreId
                   /\ new.instructions[1] = CoreComment(work)
                   /\ \A p \in 1 .. Len(new.instructions) :
                          IsInstruction(new.instructions[p]) =>
                              Decode(new.instructions[p]).coreId
                                  = work.coreId % (CORE_MASK + 1)

C21_IndependentSequences ==
    [](SameAsSequential) /\ [][GeneratedAlone]_vars

\* three cores finished in the order 2, 0, 1 and appended in the order 0, 1, 2
C21_Witness ==
    /\ Assembled
    /\ Len(workAssignments) = 3
    /\ sequences[1].coreId = 2
    /\ sequences[2].coreId = 0
    /\ sequences[3].coreId = 1
    /\ coreInstructions = sequences[1].instructions
    /\ allInstructions[5] = sequences[2].instructions[1]

-----------------------------------------------------------------------------
(* C22: every memory-row address of a sequence lies in the rows the layout   *)
(* gave to its matrix: the address of each load of A in [baseAddrA,          *)
(* baseAddrB), of each load of B in [baseAddrB, baseAddrC) and of each       *)
(* store of C in [baseAddrC, baseAddrC + ceil(M*N/512)), whether a row of A  *)
(* takes one memory row or several.  The addresses are read from the words   *)
(* of the sequence; they are below 512 here, so the 9 bits of the word hold  *)
(* the address the sequencer computed.                                       *)

\* the loads of A that follow a row comment
LoadsPerRowOfA ==
    IF memoryMap.rowsPerMatrixRowA > 1 THEN memoryMap.rowsPerMatrixRowA ELSE 1

\* the word at offset m of line p of the last generated sequence
WordAt(p, m) ==
    Decode(coreInstructions[p + m])

C22_AddressesInsideLayout ==
    CoreGenerated =>
        LET rowsC == CeilOfQuotient(dims.M * dims.N, MEMORY_ROW_SIZE)
        IN  /\ \A n \in 1 .. Len(RowStarts) :
                   \A segment \in 0 .. (LoadsPerRowOfA - 1) :
                       LET load == WordAt(RowStarts[n], 2 * segment + 1)
                       IN  /\ load.read
                           /\ memoryMap.baseAddrA <= load.addr
                           /\ load.addr < memoryMap.baseAddrB
            /\ \A n \in 1 .. Len(ColumnStarts) :
                   /\ \A k \in 0 .. (dims.K - 1) :
                          LET load == WordAt(ColumnStarts[n], 3 * k + 2)
                          IN  /\ load.read
                              /\ memoryMap.baseAddrB <= load.addr
                              /\ load.addr < memoryMap.baseAddrC
                   /\ LET store == WordAt(ColumnStarts[n], 3 * dims.K + 2)
                      IN  /\ store.write
                          /\ memoryMap.baseAddrC <= store.addr
                          /\ store.addr < memoryMap.baseAddrC + rowsC

-----------------------------------------------------------------------------
(* C23: in the whole program, when every row address fits in 9 bits         *)
(* (baseAddrC + ceil(M*N/512) <= 512), each element C[i][j], 0 <= i < M,     *)
(* 0 <= j < N, is stored by exactly one store pair (the EXE with write = 1   *)
(* and the offset EXE after it), that pair stands in the sequence of the one *)
(* core whose rows contain i, and no two elements have the same store        *)
(* address and offset.                                                       *)

\* every core has been generated and appended
ProgramComplete ==
    pc = "cores" /\ workIdx > Len(workAssignments)

\* the lines of the program that begin with a given comment text
CommentLines(text) ==
    SelectSeq([p \in 1 .. Len(allInstructions) |-> p],
              LAMBDA p : /\ Len(allInstructions[p]) >= 2
                         /\ allInstructions[p][1] = "#"
                         /\ allInstructions[p][2] = text)

\* the lines of the program that are stores, in program order
StoreLines ==
    SelectSeq([p \in 1 .. Len(allInstructions) |-> p],
              LAMBDA p : /\ IsInstruction(allInstructions[p])
                         /\ Decode(allInstructions[p]).opcode = 2
                         /\ Decode(allInstructions[p]).write)

\* the store address and the offset of the store pair at line p
StorePair(p) ==
    <<Decode(allInstructions[p]).addr, Decode(allInstructions[p + 1]).addr>>

FitsNineBits ==
    memoryMap.baseAddrC + CeilOfQuotient(dims.M * dims.N, MEMORY_ROW_SIZE)
        <= ADDR_MASK + 1

\* C23: the n-th element block of the program holds the n-th store of the
\* program and no other, it stands in the sequence of the core that has row
\* i, and the store pairs of the M*N elements are all different
C23_OneStorePerElement ==
    (ProgramComplete /\ FitsNineBits) =>
        LET cores   == CommentLines(" Instructions for Core ")
            columns == CommentLines(" Computing element C[")
            stores  == StoreLines
            size    == 3 * dims.K + 3
        IN  /\ Len(cores) = Len(workAssignments)
            /\ Len(columns) = dims.M * dims.N
            /\ Len(stores) = dims.M * dims.N
            /\ \A n \in 1 .. Len(columns) :
                   LET i == (n - 1) \div dims.N
                       j == (n - 1) % dims.N
                       p == columns[n]
                   IN  /\ allInstructions[p] = ColumnComment(i, j)
                       /\ p < stores[n]
                       /\ stores[n] < p + size
                       /\ n < Len(columns) => p + size < columns[n + 1]
                       /\ \E c \in 1 .. Len(cores) :
                              /\ workAssignments[c].startRow <= i
                              /\ i <= workAssignments[c].endRow
                              /\ allInstructions[cores[c]]
                                     = CoreComment(workAssignments[c])
                              /\ cores[c] < p
                              /\ c < Len(cores) => p + size < cores[c + 1]
                              /\ Decode(allInstructions[stores[n]]).coreId
                                     = workAssignments[c].coreId % (CORE_MASK + 1)
            /\ Cardinality({StorePair(stores[n]) : n \in 1 .. Len(stores)})
                   = dims.M * dims.N

\* 4 x 3 elements on two cores: C[3][2] is stored by core 1 at offset 11
C23_Witness ==
    /\ ProgramComplete
    /\ dims = Dim(4, 3, 2)
    /\ Len(workAssignments) = 2
    /\ Len(StoreLines) = 12
    /\ LET p == StoreLines[12]
       IN  /\ StorePair(p) = <<memoryMap.baseAddrC, 11>>
           /\ Decode(allInstructions[p]).coreId = 1
           /\ allInstructions[p - 3 * dims.K - 2] = ColumnComment(3, 2)

-----------------------------------------------------------------------------
(* C24: in the sequence of a core the role of an EXE word can be told from   *)
(* the word alone: the accumulator-clear word (no read, no write, address 0) *)
(* and the multiply-accumulate word (no read, no write, address 2) both      *)
(* differ from every offset-select word of that sequence, which is the word  *)
(* that follows a load of A, a load of B or a store of C and carries the     *)
(* offset as its address.                                                    *)

\* the offset-select words of the last generated sequence: the word after
\* each EXE with read = 1 or write = 1
OffsetSelects ==
    {CoreWords[p + 1] : p \in {q \in 1 .. (Len(CoreWords) - 1) :
                                  /\ Decode(CoreWords[q]).opcode = 2
                                  /\ \/ Decode(CoreWords[q]).read
                                     \/ Decode(CoreWords[q]).write}}

\* the word that clears the accumulator of the last generated core
ClearWord ==
    genExeInstr(LastWork.coreId, FALSE, FALSE, 0)

\* the multiply-accumulate word of the last generated core
MacWord ==
    genExeInstr(LastWork.coreId, FALSE, FALSE, OP_MAC)

C24_RoleFromWord ==
    CoreGenerated =>
        /\ ClearWord \notin OffsetSelects
        /\ MacWord \notin OffsetSelects

-----------------------------------------------------------------------------
(* C25: when a row of A takes one memory row (rowsPerMatrixRowA = 1, K <=    *)
(* 512), the one memory row loaded for an assigned row i, at address         *)
(* baseAddrA + (i*rowSizeA)/512 with offset (i*rowSizeA) % 512, holds all K  *)
(* elements of the row: the last element of the row, element i*K + K - 1 of  *)
(* A, is in the loaded memory row, (i*K)/512 = (i*K + K - 1)/512.            *)

C25_RowInOneMemoryRow ==
    (CoreGenerated /\ memoryMap.rowsPerMatrixRowA = 1) =>
        \A n \in 1 .. Len(RowStarts) :
            LET i      == LastWork.startRow + n - 1
                load   == WordAt(RowStarts[n], 1)
                select == WordAt(RowStarts[n], 2)
                last   == i * dims.K + dims.K - 1
            IN  /\ load.read
                /\ load.addr = memoryMap.baseAddrA
                                   + ((i * memoryMap.rowSizeA) \div MEMORY_ROW_SIZE)
                /\ select.addr = (i * memoryMap.rowSizeA) % MEMORY_ROW_SIZE
                /\ load.addr = memoryMap.baseAddrA + (last \div MEMORY_ROW_SIZE)
                /\ select.addr + dims.K <= MEMORY_ROW_SIZE

-----------------------------------------------------------------------------
(* C26: for M >= 1 rows and c >= 1 requested cores, with c' = min(c, M) and  *)
(* r = ceil(M/c'), distributeWork returns exactly ceil(M/r) assignments,     *)
(* their coreIds are 0, 1, ..., ceil(M/r) - 1 in this order (only trailing   *)
(* cores are dropped), every assignment but the last covers exactly r rows   *)
(* and the last covers at least 1 row and at most r.                         *)

\* the rows an assignment covers
RowsOf(work) ==
    work.endRow - work.startRow + 1

C26_AssignmentCount ==
    (Partitioned /\ dims.M >= 1 /\ numCores >= 1) =>
        LET c     == IF numCores < dims.M THEN numCores ELSE dims.M
            r     == (dims.M + c - 1) \div c
            count == (dims.M + r - 1) \div r
            w     == workAssignments
        IN  /\ Len(w) = count
            /\ \A n \in 1 .. Len(w) : w[n].coreId = n - 1
            /\ \A n \in 1 .. (Len(w) - 1) : RowsOf(w[n]) = r
            /\ 1 <= RowsOf(w[Len(w)])
            /\ RowsOf(w[Len(w)]) <= r

\* 4 rows on 3 requested cores: r = 2, the cores 0 and 1 take 2 rows each
\* and core 2 is dropped
C26_Witness ==
    /\ Partitioned
    /\ dims.M = 4
    /\ numCores = 3
    /\ Len(workAssignments) = 2
    /\ workAssignments[1].coreId = 0
    /\ workAssignments[2].coreId = 1
    /\ RowsOf(workAssignments[1]) = 2
    /\ RowsOf(workAssignments[2]) = 2

====
